---- MODULE Spec2Model ----
(***************************************************************************)
(* A model of the TRUST -> Rust compiler core (crates/trusty-compiler).    *)
(*                                                                         *)
(* Source text is a sequence of one-character strings, so that the         *)
(* lexical pre-pass (lib.rs) is modelled character by character, and so   *)
(* is the Rust text that the transpiler produces.                          *)
(***************************************************************************)
EXTENDS Integers, Sequences, FiniteSets, TLC

(***************************************************************************)
(* Characters and the string helpers of the Rust standard library that     *)
(* lib.rs uses.  Indices are 1-based: Rust index i is index i + 1 here.    *)
(***************************************************************************)

\* The template quote U+0060: a TLA+ string cannot hold that character, so it
\* is written as this one-character stand-in.
Backtick == "BACKTICK"

\* The absent character (`None` of `Option<char>`).
NoChar == ""

Letters ==
    {"a", "b", "c", "d", "e", "f", "g", "h", "i", "j", "k", "l", "m",
     "n", "o", "p", "q", "r", "s", "t", "u", "v", "w", "x", "y", "z",
     "A", "B", "C", "D", "E", "F", "G", "H", "I", "J", "K", "L", "M",
     "N", "O", "P", "Q", "R", "S", "T", "U", "V", "W", "X", "Y", "Z"}

Digits == {"0", "1", "2", "3", "4", "5", "6", "7", "8", "9"}

\* c.is_ascii_alphanumeric() || c == '_'
is_ident_char(c) == c \in Letters \cup Digits \cup {"_"}

\* char::is_whitespace, on the characters of the model's alphabet
is_whitespace(c) == c \in {" ", "\t", "\n", "\r"}

\* chars[i + 1] when it exists, else None
next_char(chars, i) == IF i + 1 <= Len(chars) THEN chars[i + 1] ELSE NoChar

\* s[from..] (1-based, from may be Len(s) + 1)
Drop(s, n) == SubSeq(s, n + 1, Len(s))

Take(s, n) == SubSeq(s, 1, n)

starts_with(s, p) == Len(s) >= Len(p) /\ SubSeq(s, 1, Len(p)) = p

ends_with(s, p) == Len(s) >= Len(p) /\ SubSeq(s, Len(s) - Len(p) + 1, Len(s)) = p

\* part occurs in text as a contiguous run
Occurs(part, text) ==
    \E k \in 0..(Len(text) - Len(part)) : SubSeq(text, k + 1, k + Len(part)) = part

\* str::contains / Vec::contains
str_contains(text, pat) == Occurs(pat, text)

vec_contains(v, x) == \E k \in 1..Len(v) : v[k] = x

\* `let x = v; body`: v is evaluated once and x names its value in body.
Bind(v, body(_)) == CHOOSE r \in {body(x) : x \in {v}} : TRUE

\* The least and the greatest element of a non-empty set of indices.
MinOf(S) == CHOOSE m \in S : \A k \in S : m <= k

MaxOf(S) == CHOOSE m \in S : \A k \in S : m >= k

\* The k-th smallest element of a set of indices.
Kth(S, k) == CHOOSE p \in S : Cardinality({q \in S : q < p}) = k - 1

trim_start(s) ==
    LET keep == {i \in 1..Len(s) : ~is_whitespace(s[i])}
    IN IF keep = {} THEN <<>> ELSE Drop(s, MinOf(keep) - 1)

trim_end(s) ==
    LET keep == {i \in 1..Len(s) : ~is_whitespace(s[i])}
    IN IF keep = {} THEN <<>> ELSE Take(s, MaxOf(keep))

trim(s) == trim_end(trim_start(s))

trim_end_matches(s, c) ==
    LET keep == {i \in 1..Len(s) : s[i] # c}
    IN IF keep = {} THEN <<>> ELSE Take(s, MaxOf(keep))

count_char(s, c) == Cardinality({i \in 1..Len(s) : s[i] = c})

\* Index of the first occurrence of character c in s at or after i, 0 when
\* absent.
find_char_from(s, c, i) ==
    LET hits == {j \in i..Len(s) : s[j] = c}
    IN IF hits = {} THEN 0 ELSE MinOf(hits)

\* str::lines(): split at "\n"; a line that ended in "\n" also loses a
\* trailing "\r"; no final empty line after a terminating "\n".
trim_end_cr(s) == IF s # <<>> /\ s[Len(s)] = "\r" THEN Take(s, Len(s) - 1) ELSE s

lines(s) ==
    LET ends == {i \in 1..Len(s) : s[i] = "\n"}
                \cup (IF s # <<>> /\ s[Len(s)] # "\n" THEN {Len(s) + 1} ELSE {})
    IN [k \in 1..Cardinality(ends) |->
           LET e == Kth(ends, k)
               b == IF k = 1 THEN 1 ELSE Kth(ends, k - 1) + 1
               seg == SubSeq(s, b, e - 1)
           IN IF e <= Len(s) THEN trim_end_cr(seg) ELSE seg]

\* [String]::join(sep), on the elements lo..hi of ls
RECURSIVE join_range(_, _, _, _)
join_range(ls, sep, lo, hi) ==
    IF lo > hi THEN <<>>
    ELSE IF lo = hi THEN ls[lo]
    ELSE LET mid == (lo + hi) \div 2
         IN join_range(ls, sep, lo, mid) \o sep \o join_range(ls, sep, mid + 1, hi)

join(ls, sep) == join_range(ls, sep, 1, Len(ls))

\* str::replace(from, to): non-overlapping matches, left to right.  One step
\* from st = [i, out] copies one character or replaces one match; the scan
\* takes at most fuel steps and is evaluated by halving the fuel.
replace_step(s, from, to, st) ==
    IF st.i + Len(from) - 1 <= Len(s) /\ SubSeq(s, st.i, st.i + Len(from) - 1) = from
    THEN [i |-> st.i + Len(from), out |-> st.out \o to]
    ELSE [i |-> st.i + 1, out |-> Append(st.out, s[st.i])]

RECURSIVE replace_loop(_, _, _, _, _)
replace_loop(s, from, to, st, fuel) ==
    IF st.i > Len(s) THEN st
    ELSE IF fuel <= 1 THEN replace_step(s, from, to, st)
    ELSE replace_loop(s, from, to, replace_loop(s, from, to, st, fuel \div 2),
                      fuel - (fuel \div 2))

replace(s, from, to) == replace_loop(s, from, to, [i |-> 1, out |-> <<>>], Len(s)).out

\* usize formatted by `{}`
RECURSIVE usize_to_chars(_)
usize_to_chars(n) ==
    LET d == <<"0", "1", "2", "3", "4", "5", "6", "7", "8", "9">>
    IN IF n < 10 THEN <<d[n + 1]>>
       ELSE usize_to_chars(n \div 10) \o <<d[(n % 10) + 1]>>

(***************************************************************************)
(* lib.rs: pre-parse validation.                                           *)
(***************************************************************************)

\* the inner loop of a line comment: advance to the next "\n" or the end
skip_line_comment(chars, i) ==
    LET nl == {j \in i..Len(chars) : chars[j] = "\n"}
    IN IF i > Len(chars) THEN i
       ELSE IF nl = {} THEN Len(chars) + 1
       ELSE MinOf(nl)

\* the inner loop of a block comment: advance to the closing "*/", or to the
\* last character when there is none
skip_block_comment(chars, i) ==
    LET close == {j \in i..(Len(chars) - 1) : chars[j] = "*" /\ chars[j + 1] = "/"}
    IN IF i >= Len(chars) THEN i
       ELSE IF close = {} THEN Len(chars)
       ELSE MinOf(close)

\* One iteration of the scanning loop of contains_identifier_in_code, from
\* the state st = [i, ident, in_single, in_double, in_template, found].
\* `ident` is the identifier accumulated so far; it is only compared and
\* cleared when a non-identifier character is met in a code position.
cic_step(chars, needle, st) ==
    LET i == st.i
        ch == chars[i]
        next == next_char(chars, i)
    IN
    IF st.in_single THEN
        IF ch = "\\" /\ next # NoChar THEN [st EXCEPT !.i = i + 2]
        ELSE [st EXCEPT !.i = i + 1, !.in_single = (ch # "'")]
    ELSE IF st.in_double THEN
        IF ch = "\\" /\ next # NoChar THEN [st EXCEPT !.i = i + 2]
        ELSE [st EXCEPT !.i = i + 1, !.in_double = (ch # "\"")]
    ELSE IF st.in_template THEN
        IF ch = "\\" /\ next # NoChar THEN [st EXCEPT !.i = i + 2]
        ELSE [st EXCEPT !.i = i + 1, !.in_template = (ch # Backtick)]
    ELSE IF ch = "/" /\ next = "/" THEN [st EXCEPT !.i = skip_line_comment(chars, i + 2)]
    ELSE IF ch = "/" /\ next = "*" THEN [st EXCEPT !.i = skip_block_comment(chars, i + 2) + 2]
    ELSE IF ch = "'" THEN [st EXCEPT !.i = i + 1, !.in_single = TRUE]
    ELSE IF ch = "\"" THEN [st EXCEPT !.i = i + 1, !.in_double = TRUE]
    ELSE IF ch = Backtick THEN [st EXCEPT !.i = i + 1, !.in_template = TRUE]
    ELSE IF is_ident_char(ch) THEN [st EXCEPT !.i = i + 1, !.ident = Append(@, ch)]
    ELSE IF st.ident = needle THEN [st EXCEPT !.found = TRUE]
    ELSE [st EXCEPT !.i = i + 1, !.ident = <<>>]

\* The scanning loop: at most fuel iterations, evaluated by halving the fuel.
RECURSIVE cic_loop(_, _, _, _)
cic_loop(chars, needle, st, fuel) ==
    IF st.found \/ st.i > Len(chars) THEN st
    ELSE IF fuel <= 1 THEN cic_step(chars, needle, st)
    ELSE cic_loop(chars, needle, cic_loop(chars, needle, st, fuel \div 2),
                  fuel - (fuel \div 2))

contains_identifier_in_code(source_text, needle) ==
    LET end == cic_loop(source_text, needle,
                        [i |-> 1, ident |-> <<>>, in_single |-> FALSE,
                         in_double |-> FALSE, in_template |-> FALSE, found |-> FALSE],
                        Len(source_text) + 1)
    IN end.found \/ end.ident = needle

kw_while == <<"w", "h", "i", "l", "e">>

\* TRUE when compile_full bails with "`while` is not supported in TRUST".
reject_unsupported_while(source_text) ==
    contains_identifier_in_code(source_text, kw_while)

(***************************************************************************)
(* lib.rs: the `match` rewrite.  Option<usize> is an index, 0 for None.    *)
(* The three flags in_single / in_double / in_template of these scanners   *)
(* are exclusive; `q` is the quote character of the flag that is set, or   *)
(* NoChar when none is.                                                    *)
(***************************************************************************)

is_quote(c) == c \in {"'", "\"", Backtick}

\* One iteration of the loop of find_matching, from st = [i, depth, q, found].
fm_step(chars, st, open, close) ==
    LET i == st.i
        c == chars[i]
        next == next_char(chars, i)
    IN
    IF st.q # NoChar THEN
        IF c = "\\" THEN [st EXCEPT !.i = i + 2]
        ELSE [st EXCEPT !.i = i + 1, !.q = IF c = st.q THEN NoChar ELSE st.q]
    ELSE IF is_quote(c) THEN [st EXCEPT !.i = i + 1, !.q = c]
    ELSE IF c = "/" /\ next = "/" THEN [st EXCEPT !.i = skip_line_comment(chars, i)]
    ELSE IF c = "/" /\ next = "*" THEN [st EXCEPT !.i = skip_block_comment(chars, i + 2) + 2]
    ELSE IF c = open THEN [st EXCEPT !.i = i + 1, !.depth = @ + 1]
    ELSE IF c = close THEN
        IF st.depth - 1 = 0 THEN [st EXCEPT !.depth = 0, !.found = TRUE]
        ELSE [st EXCEPT !.i = i + 1, !.depth = @ - 1]
    ELSE [st EXCEPT !.i = i + 1]

RECURSIVE fm_loop(_, _, _, _, _)
fm_loop(chars, st, open, close, fuel) ==
    IF st.found \/ st.i > Len(chars) THEN st
    ELSE IF fuel <= 1 THEN fm_step(chars, st, open, close)
    ELSE fm_loop(chars, fm_loop(chars, st, open, close, fuel \div 2), open, close,
                 fuel - (fuel \div 2))

find_matching(chars, open_pos, open, close) ==
    LET end == fm_loop(chars, [i |-> open_pos, depth |-> 0, q |-> NoChar, found |-> FALSE],
                       open, close, Len(chars) + 1)
    IN IF end.found THEN end.i ELSE 0

\* parts.push(part) unless the trimmed part is empty
push_part(parts, part) == IF trim(part) = <<>> THEN parts ELSE Append(parts, trim(part))

\* One iteration of the loop of split_top_level_csv, from
\* st = [i, start, par, brk, brc, q, parts].
csv_step(chars, st) ==
    LET i == st.i
        c == chars[i]
        next == next_char(chars, i)
    IN
    IF st.q # NoChar THEN
        IF c = "\\" THEN [st EXCEPT !.i = i + 2]
        ELSE [st EXCEPT !.i = i + 1, !.q = IF c = st.q THEN NoChar ELSE st.q]
    ELSE IF c = "/" /\ next = "/" THEN [st EXCEPT !.i = skip_line_comment(chars, i)]
    ELSE IF c = "/" /\ next = "*" THEN [st EXCEPT !.i = skip_block_comment(chars, i + 2) + 2]
    ELSE IF is_quote(c) THEN [st EXCEPT !.i = i + 1, !.q = c]
    ELSE IF c = "(" THEN [st EXCEPT !.i = i + 1, !.par = @ + 1]
    ELSE IF c = ")" THEN [st EXCEPT !.i = i + 1, !.par = @ - 1]
    ELSE IF c = "[" THEN [st EXCEPT !.i = i + 1, !.brk = @ + 1]
    ELSE IF c = "]" THEN [st EXCEPT !.i = i + 1, !.brk = @ - 1]
    ELSE IF c = "{" THEN [st EXCEPT !.i = i + 1, !.brc = @ + 1]
    ELSE IF c = "}" THEN [st EXCEPT !.i = i + 1, !.brc = @ - 1]
    ELSE IF c = "," /\ st.par = 0 /\ st.brk = 0 /\ st.brc = 0 THEN
        [st EXCEPT !.i = i + 1, !.start = i + 1,
                   !.parts = push_part(@, SubSeq(chars, st.start, i - 1))]
    ELSE [st EXCEPT !.i = i + 1]

RECURSIVE csv_loop(_, _, _)
csv_loop(chars, st, fuel) ==
    IF st.i > Len(chars) THEN st
    ELSE IF fuel <= 1 THEN csv_step(chars, st)
    ELSE csv_loop(chars, csv_loop(chars, st, fuel \div 2), fuel - (fuel \div 2))

split_top_level_csv(input) ==
    LET end == csv_loop(input, [i |-> 1, start |-> 1, par |-> 0, brk |-> 0, brc |-> 0,
                                q |-> NoChar, parts |-> <<>>], Len(input))
    IN push_part(end.parts, SubSeq(input, end.start, Len(input)))

\* One iteration of the loop of find_top_level_arrow, from
\* st = [i, par, brk, brc, q, found].
arrow_step(chars, st) ==
    LET i == st.i
        c == chars[i]
        next == next_char(chars, i)
    IN
    IF st.q # NoChar THEN
        IF c = "\\" THEN [st EXCEPT !.i = i + 2]
        ELSE [st EXCEPT !.i = i + 1, !.q = IF c = st.q THEN NoChar ELSE st.q]
    ELSE IF is_quote(c) THEN [st EXCEPT !.i = i + 1, !.q = c]
    ELSE IF c = "(" THEN [st EXCEPT !.i = i + 1, !.par = @ + 1]
    ELSE IF c = ")" THEN [st EXCEPT !.i = i + 1, !.par = @ - 1]
    ELSE IF c = "[" THEN [st EXCEPT !.i = i + 1, !.brk = @ + 1]
    ELSE IF c = "]" THEN [st EXCEPT !.i = i + 1, !.brk = @ - 1]
    ELSE IF c = "{" THEN [st EXCEPT !.i = i + 1, !.brc = @ + 1]
    ELSE IF c = "}" THEN [st EXCEPT !.i = i + 1, !.brc = @ - 1]
    ELSE IF c = "=" /\ next = ">" /\ st.par = 0 /\ st.brk = 0 /\ st.brc = 0
         THEN [st EXCEPT !.found = TRUE]
    ELSE [st EXCEPT !.i = i + 1]

RECURSIVE arrow_loop(_, _, _)
arrow_loop(chars, st, fuel) ==
    IF st.found \/ st.i > Len(chars) THEN st
    ELSE IF fuel <= 1 THEN arrow_step(chars, st)
    ELSE arrow_loop(chars, arrow_loop(chars, st, fuel \div 2), fuel - (fuel \div 2))

find_top_level_arrow(input) ==
    LET end == arrow_loop(input, [i |-> 1, par |-> 0, brk |-> 0, brc |-> 0,
                                  q |-> NoChar, found |-> FALSE], Len(input) + 1)
    IN IF end.found THEN end.i ELSE 0

\* "__trust_match_<id>"
match_var(match_id) == <<"_", "_", "t", "r", "u", "s", "t", "_", "m", "a", "t", "c", "h", "_">> \o usize_to_chars(match_id)

\* Option<String>, with a panic of the rewrite as a third outcome.  The slice
\* `pattern[1..pattern.len() - 1]` of build_match_expr is taken only of a
\* pattern that starts with "[" and ends with "]", so of two characters or
\* more, and cannot panic.
NoneStr == [some |-> FALSE, panic |-> FALSE, val |-> <<>>]
SomeStr(v) == [some |-> TRUE, panic |-> FALSE, val |-> v]
PanicStr == [some |-> FALSE, panic |-> TRUE, val |-> <<>>]

\* the condition text of one non-default arm
arm_condition(pattern, match_id) ==
    IF starts_with(pattern, <<"[">>) /\ ends_with(pattern, <<"]">>)
    THEN <<"[">> \o trim(SubSeq(pattern, 2, Len(pattern) - 1))
         \o <<"]", ".", "c", "o", "n", "t", "a", "i", "n", "s", "(", "&">> \o match_var(match_id) \o <<")">>
    ELSE match_var(match_id) \o <<" ", "=", "=", " ", "(">> \o pattern \o <<")">>

\* The loop over the arms: acc = [conditions, default_expr, has_default],
\* or NoneStr when the loop returns early.
RECURSIVE arms_loop(_, _, _, _)
arms_loop(arms, n, match_id, acc) ==
    IF n > Len(arms) THEN acc
    ELSE Bind(find_top_level_arrow(arms[n]), LAMBDA arrow :
         IF arrow = 0 THEN NoneStr
         ELSE Bind(<<trim(Take(arms[n], arrow - 1)), trim(Drop(arms[n], arrow + 1))>>,
              LAMBDA pe :
              \* pe = <<pattern, expr>>
              IF pe[1] = <<>> \/ pe[2] = <<>> THEN NoneStr
              ELSE IF pe[1] = <<"d", "e", "f", "a", "u", "l", "t">> THEN
                  arms_loop(arms, n + 1, match_id,
                            [acc EXCEPT !.default_expr = pe[2], !.has_default = TRUE])
              ELSE arms_loop(arms, n + 1, match_id,
                             [acc EXCEPT !.conditions =
                                  Append(@, <<arm_condition(pe[1], match_id), pe[2]>>)])))

RECURSIVE if_chain(_, _)
if_chain(conditions, idx) ==
    IF idx > Len(conditions) THEN <<>>
    ELSE (IF idx = 1 THEN <<"i", "f", " ">> ELSE <<"e", "l", "s", "e", " ", "i", "f", " ">>)
         \o conditions[idx][1] \o <<" ", "{", " ">> \o conditions[idx][2] \o <<" ", "}", " ">>
         \o if_chain(conditions, idx + 1)

\* a tail without the panic arm: the else branch holds the default result
\* whether or not there is a default arm
C28_NoPanicArm(acc) == <<"e", "l", "s", "e", " ", "{", " ">> \o acc.default_expr \o <<" ", "}", " ", "}", ")">>

\* the text after the arms: the default arm or the panic arm, and the close
match_tail(acc) ==
    (IF acc.has_default
     THEN <<"e", "l", "s", "e", " ", "{", " ">> \o acc.default_expr \o <<" ", "}", " ">>
     ELSE <<"e", "l", "s", "e", " ", "{", " ", "p", "a", "n", "i", "c", "!", "(", "\"", "n", "o", "n", "-", "e", "x", "h", "a", "u", "s", "t", "i", "v", "e", " ", "m", "a", "t", "c", "h", "\"", ")", " ", "}", " ">>)
    \o <<"}", ")">>

build_match_expr(subject, body, match_id) ==
    Bind(split_top_level_csv(body), LAMBDA arms :
    IF arms = <<>> THEN NoneStr
    ELSE Bind(arms_loop(arms, 1, match_id,
                        [conditions |-> <<>>, default_expr |-> <<>>, has_default |-> FALSE]),
         LAMBDA acc :
         IF "some" \in DOMAIN acc THEN acc
         ELSE Bind(<<"(", "{", " ", "l", "e", "t", " ">> \o match_var(match_id) \o <<" ", "=", " ">> \o subject \o <<";", " ">>,
              LAMBDA head :
              IF acc.conditions = <<>> THEN
                  IF acc.has_default
                  THEN SomeStr(head \o acc.default_expr \o <<" ", "}", ")">>)
                  ELSE NoneStr
              ELSE SomeStr(head \o if_chain(acc.conditions, 1) \o match_tail(acc)))))

skip_whitespace(chars, j) ==
    LET stop == {k \in j..Len(chars) : ~is_whitespace(chars[k])}
    IN IF j > Len(chars) THEN j
       ELSE IF stop = {} THEN Len(chars) + 1
       ELSE MinOf(stop)

\* What one iteration starting at a `match` keyword finds: the rewritten
\* text and the index of the closing brace, or no rewrite.
match_at(chars, i, match_id) ==
    LET no == [rewritten |-> NoneStr, body_end |-> 0]
    IN
    Bind(skip_whitespace(chars, i + 5), LAMBDA j :
    IF j > Len(chars) \/ chars[j] # "(" THEN no
    ELSE Bind(find_matching(chars, j, "(", ")"), LAMBDA subject_end :
    IF subject_end = 0 THEN no
    ELSE Bind(skip_whitespace(chars, subject_end + 1), LAMBDA k :
    IF k > Len(chars) \/ chars[k] # "{" THEN no
    ELSE Bind(find_matching(chars, k, "{", "}"), LAMBDA body_end :
    IF body_end = 0 THEN no
    ELSE [rewritten |-> build_match_expr(trim(SubSeq(chars, j + 1, subject_end - 1)),
                                         SubSeq(chars, k + 1, body_end - 1), match_id),
          body_end |-> body_end]))))

can_start_match(chars, i) ==
    /\ i + 4 <= Len(chars)
    /\ SubSeq(chars, i, i + 4) = <<"m", "a", "t", "c", "h">>
    /\ (i = 1 \/ ~is_ident_char(chars[i - 1]))
    /\ (i + 5 > Len(chars) \/ ~is_ident_char(chars[i + 5]))

\* One iteration of the loop of rewrite_match_blocks, from
\* st = [i, match_id, out, panic].
rmb_step(chars, st) ==
    LET copy == [st EXCEPT !.i = st.i + 1, !.out = Append(@, chars[st.i])]
    IN IF ~can_start_match(chars, st.i) THEN copy
       ELSE Bind(match_at(chars, st.i, st.match_id), LAMBDA m :
            IF m.rewritten.panic THEN [st EXCEPT !.panic = TRUE]
            ELSE IF m.rewritten.some
            THEN [st EXCEPT !.i = m.body_end + 1, !.match_id = @ + 1,
                            !.out = @ \o m.rewritten.val]
            ELSE copy)

RECURSIVE rmb_loop(_, _, _)
rmb_loop(chars, st, fuel) ==
    IF st.panic \/ st.i > Len(chars) THEN st
    ELSE IF fuel <= 1 THEN rmb_step(chars, st)
    ELSE rmb_loop(chars, rmb_loop(chars, st, fuel \div 2), fuel - (fuel \div 2))

\* SomeStr(text), or PanicStr when build_match_expr panics
rewrite_match_blocks(source_text) ==
    LET end == rmb_loop(source_text, [i |-> 1, match_id |-> 0, out |-> <<>>, panic |-> FALSE],
                        Len(source_text) + 1)
    IN IF end.panic THEN PanicStr ELSE SomeStr(end.out)

(***************************************************************************)
(* lib.rs: `and` / `or` / `loop (` rewrite, with its Mode scanner.         *)
(***************************************************************************)

\* One iteration of the loop of rewrite_word_boolean_ops at index i in
\* `mode`: the next index, the next mode and the text pushed to `out`.
rwb_step(chars, i, mode) ==
    LET c == chars[i]
        next == next_char(chars, i)
        prev_ok == i = 1 \/ ~is_ident_char(chars[i - 1])
        k == skip_whitespace(chars, i + 4)
        closing == CASE mode = "SingleString" -> "'"
                     [] mode = "DoubleString" -> "\""
                     [] OTHER -> Backtick
    IN
    IF mode = "Normal" THEN
        IF c = "/" /\ next = "/" THEN [i |-> i + 2, mode |-> "LineComment", push |-> <<"/", "/">>]
        ELSE IF c = "/" /\ next = "*" THEN [i |-> i + 2, mode |-> "BlockComment", push |-> <<"/", "*">>]
        ELSE IF c = "'" THEN [i |-> i + 1, mode |-> "SingleString", push |-> <<c>>]
        ELSE IF c = "\"" THEN [i |-> i + 1, mode |-> "DoubleString", push |-> <<c>>]
        ELSE IF c = Backtick THEN [i |-> i + 1, mode |-> "TemplateString", push |-> <<c>>]
        ELSE IF /\ c = "a" /\ i + 2 <= Len(chars) /\ chars[i + 1] = "n" /\ chars[i + 2] = "d"
                /\ prev_ok
                /\ (i + 3 > Len(chars) \/ ~is_ident_char(chars[i + 3]))
             THEN [i |-> i + 3, mode |-> mode, push |-> <<"&", "&">>]
        ELSE IF /\ c = "o" /\ i + 1 <= Len(chars) /\ chars[i + 1] = "r"
                /\ prev_ok
                /\ (i + 2 > Len(chars) \/ ~is_ident_char(chars[i + 2]))
             THEN [i |-> i + 2, mode |-> mode, push |-> <<"|", "|">>]
        ELSE IF /\ c = "l" /\ i + 3 <= Len(chars)
                /\ chars[i + 1] = "o" /\ chars[i + 2] = "o" /\ chars[i + 3] = "p"
                /\ prev_ok
                /\ (i + 4 > Len(chars) \/ ~is_ident_char(chars[i + 4]))
                /\ k <= Len(chars) /\ chars[k] = "("
             THEN [i |-> i + 4, mode |-> mode, push |-> <<"w", "h", "i", "l", "e">>]
        ELSE [i |-> i + 1, mode |-> mode, push |-> <<c>>]
    ELSE IF mode = "LineComment" THEN
        [i |-> i + 1, mode |-> IF c = "\n" THEN "Normal" ELSE mode, push |-> <<c>>]
    ELSE IF mode = "BlockComment" THEN
        IF c = "*" /\ next = "/" THEN [i |-> i + 2, mode |-> "Normal", push |-> <<"*", "/">>]
        ELSE [i |-> i + 1, mode |-> mode, push |-> <<c>>]
    ELSE \* SingleString, DoubleString, TemplateString
        IF c = "\\" THEN
            IF next # NoChar THEN [i |-> i + 2, mode |-> mode, push |-> <<c, next>>]
            ELSE [i |-> i + 1, mode |-> mode, push |-> <<c>>]
        ELSE [i |-> i + 1, mode |-> IF c = closing THEN "Normal" ELSE mode, push |-> <<c>>]

RECURSIVE rwb_loop(_, _, _)
rwb_loop(chars, st, fuel) ==
    IF st.i > Len(chars) THEN st
    ELSE IF fuel <= 1
         THEN LET s == rwb_step(chars, st.i, st.mode)
              IN [i |-> s.i, mode |-> s.mode, out |-> st.out \o s.push]
    ELSE rwb_loop(chars, rwb_loop(chars, st, fuel \div 2), fuel - (fuel \div 2))

rewrite_word_boolean_ops(source_text) ==
    rwb_loop(source_text, [i |-> 1, mode |-> "Normal", out |-> <<>>], Len(source_text)).out

(***************************************************************************)
(* lib.rs: the line-level rewrites.                                        *)
(***************************************************************************)

\* &line[..line.len() - trimmed.len()]
indent_of(line) == Take(line, Len(line) - Len(trim_start(line)))

rewrite_val_line(line) ==
    LET trimmed == trim_start(line)
    IN IF starts_with(trimmed, <<"v", "a", "l", " ">>) \/ starts_with(trimmed, <<"v", "a", "l", "\t">>)
       THEN indent_of(line) \o <<"l", "e", "t", " ">> \o trim_start(Drop(trimmed, 3))
       ELSE line

rewrite_val_declarations(source_text) ==
    LET ls == lines(source_text)
    IN join([n \in 1..Len(ls) |-> rewrite_val_line(ls[n])], <<"\n">>)

\* One iteration of the loop over the lines of rewrite_implements_blocks,
\* from st = [n, in_impl, brace_depth, out].
rib_step(ls, st) ==
    LET line == ls[st.n]
        trimmed == trim_start(line)
        indent == indent_of(line)
        p_impl == <<"i", "m", "p", "l", "e", "m", "e", "n", "t", "s", " ">>
        p_fn == <<"f", "u", "n", "c", "t", "i", "o", "n", " ">>
        rest == Drop(trimmed, Len(p_impl))
        brace == find_char_from(rest, "{", 1)
        target == trim(Take(rest, brace - 1))
        rewritten == IF starts_with(trimmed, p_fn)
                     THEN indent \o Drop(trimmed, Len(p_fn))
                     ELSE line
        depth == st.brace_depth + count_char(rewritten, "{") - count_char(rewritten, "}")
    IN
    IF ~st.in_impl THEN
        IF starts_with(trimmed, p_impl) /\ brace # 0
        THEN [n |-> st.n + 1, in_impl |-> TRUE, brace_depth |-> 1,
              out |-> Append(st.out, indent \o <<"c", "l", "a", "s", "s", " ">> \o target \o <<" ", "{">>)]
        ELSE [st EXCEPT !.n = @ + 1, !.out = Append(@, line)]
    ELSE IF depth <= 0
         THEN [n |-> st.n + 1, in_impl |-> FALSE, brace_depth |-> 0,
               out |-> Append(st.out, rewritten)]
    ELSE [n |-> st.n + 1, in_impl |-> TRUE, brace_depth |-> depth,
          out |-> Append(st.out, rewritten)]

RECURSIVE rib_loop(_, _, _)
rib_loop(ls, st, fuel) ==
    IF st.n > Len(ls) THEN st
    ELSE IF fuel <= 1 THEN rib_step(ls, st)
    ELSE rib_loop(ls, rib_loop(ls, st, fuel \div 2), fuel - (fuel \div 2))

rewrite_implements_blocks(source_text) ==
    LET ls == lines(source_text)
    IN join(rib_loop(ls, [n |-> 1, in_impl |-> FALSE, brace_depth |-> 0, out |-> <<>>],
                     Len(ls)).out, <<"\n">>)

\* the closure of preprocess: `wait expr;` -> `(expr).join().unwrap();`
rewrite_wait_line(line) ==
    LET trimmed == trim_start(line)
        p_wait == <<"w", "a", "i", "t", " ">>
        rest == trim(trim_end_matches(Drop(trimmed, Len(p_wait)), ";"))
    IN IF starts_with(trimmed, p_wait)
       THEN indent_of(line) \o <<"(">> \o rest \o <<")", ".", "j", "o", "i", "n", "(", ")", ".", "u", "n", "w", "r", "a", "p", "(", ")", ";">>
       ELSE line

\* preprocess: SomeStr(text), or PanicStr when rewrite_match_blocks panics
preprocess(source_text) ==
    Bind(rewrite_match_blocks(source_text), LAMBDA matched :
    IF matched.panic THEN PanicStr
    ELSE Bind(lines(replace(
                  rewrite_word_boolean_ops(
                      rewrite_val_declarations(rewrite_implements_blocks(matched.val))),
                  <<"s", "t", "r", "u", "c", "t", " ">>,
                  <<"i", "n", "t", "e", "r", "f", "a", "c", "e", " ">>)),
         LAMBDA ls :
         SomeStr(join([n \in 1..Len(ls) |-> rewrite_wait_line(ls[n])], <<"\n">>))))

(***************************************************************************)
(* transpiler/types.rs.  A TsType is a record: [k |-> "kw", name] for a    *)
(* keyword type, [k |-> "ref", name, args] for a type reference with its   *)
(* type arguments, [k |-> "arr", elem] for T[], [k |-> "other"] otherwise. *)
(* Rust text is a sequence of characters, as in lib.rs.                    *)
(***************************************************************************)

\* transpile_type: the arm of a type reference, given its lowered arguments
transpile_type_ref(type_name, type_args) ==
    LET first_arg == IF type_args = <<>> THEN <<"(", ")">> ELSE type_args[1]
    IN
    IF type_name = <<"n", "u", "m", "b", "e", "r", "8">> THEN <<"i", "8">>
    ELSE IF type_name = <<"n", "u", "m", "b", "e", "r", "1", "6">> THEN <<"i", "1", "6">>
    ELSE IF type_name = <<"n", "u", "m", "b", "e", "r", "3", "2">> THEN <<"i", "3", "2">>
    ELSE IF type_name = <<"n", "u", "m", "b", "e", "r", "6", "4">> THEN <<"i", "6", "4">>
    ELSE IF type_name = <<"f", "l", "o", "a", "t", "3", "2">> THEN <<"f", "3", "2">>
    ELSE IF type_name = <<"f", "l", "o", "a", "t", "6", "4">> THEN <<"f", "6", "4">>
    ELSE IF type_name = <<"n", "u", "m", "b", "e", "r">> THEN <<"i", "3", "2">>
    ELSE IF type_name = <<"P", "o", "i", "n", "t", "e", "r">> THEN <<"R", "c", "<", "R", "e", "f", "C", "e", "l", "l", "<">> \o first_arg \o <<">", ">">>
    ELSE IF type_name = <<"T", "h", "r", "e", "a", "d", "e", "d">> THEN <<"A", "r", "c", "<", "M", "u", "t", "e", "x", "<">> \o first_arg \o <<">", ">">>
    ELSE IF type_name = <<"M", "a", "p">> THEN <<"H", "a", "s", "h", "M", "a", "p", "<">> \o join(type_args, <<",", " ">>) \o <<">">>
    ELSE IF type_name = <<"S", "e", "t">> THEN <<"H", "a", "s", "h", "S", "e", "t", "<">> \o first_arg \o <<">">>
    ELSE IF type_args # <<>> THEN type_name \o <<"<">> \o join(type_args, <<",", " ">>) \o <<">">>
    ELSE type_name

RECURSIVE transpile_type(_)
transpile_type(ts_type) ==
    IF ts_type.k = "kw" THEN
        IF ts_type.name = "number" THEN <<"i", "3", "2">>
        ELSE IF ts_type.name = "string" THEN <<"S", "t", "r", "i", "n", "g">>
        ELSE IF ts_type.name = "boolean" THEN <<"b", "o", "o", "l">>
        ELSE <<"(", ")">>
    ELSE IF ts_type.k = "ref" THEN
        transpile_type_ref(ts_type.name,
                           [n \in 1..Len(ts_type.args) |-> transpile_type(ts_type.args[n])])
    ELSE IF ts_type.k = "arr" THEN <<"V", "e", "c", "<">> \o transpile_type(ts_type.elem) \o <<">">>
    ELSE <<"(", ")">>

transpile_type_annotation(type_ann) == transpile_type(type_ann)

\* Option<TsTypeAnn>: the absent annotation
NoType == [k |-> "none"]

(***************************************************************************)
(* transpiler/scope.rs.  A Scope maps names (strings) to Rust type text.   *)
(***************************************************************************)

\* a test that takes no type for a Pointer type
C5_NeverPointer(type_str) == FALSE

is_pointer(type_str) == starts_with(type_str, <<"R", "c", "<", "R", "e", "f", "C", "e", "l", "l", "<">>)

is_threaded(type_str) == starts_with(type_str, <<"A", "r", "c", "<", "M", "u", "t", "e", "x", "<">>)

\* The marker value that tags a module alias in a Scope.  scope.rs of this
\* tree does not define it; functions.rs and expressions.rs use it.
MODULE_ALIAS_MARKER == <<"_", "_", "m", "o", "d", "u", "l", "e", "_", "a", "l", "i", "a", "s", "_", "_">>

is_module_alias_binding(type_str) == type_str = MODULE_ALIAS_MARKER

\* Scope::new()
EmptyScope == [n \in {} |-> <<>>]

\* scope.insert(name, ty)
scope_insert(scope, name, ty) ==
    [n \in DOMAIN scope \cup {name} |-> IF n = name THEN ty ELSE scope[n]]

(***************************************************************************)
(* stdlib/: the canned Rust shims of the trusty:* modules.  A shim is a    *)
(* list of text entries; each long entry is represented by an excerpt that *)
(* keeps its first lines and every `use` line it contains.  The omitted    *)
(* bodies of math, rand, time and json contain none of the patterns that   *)
(* transpile_to_rust searches for.                                         *)
(***************************************************************************)

\* U+2014, written as a one-character stand-in
EmDash == "EMDASH"

math_use_statements ==
    << <<"p", "u", "b", " ", "c", "o", "n", "s", "t", " ", "P", "I", ":", " ", "f", "6", "4", " ", "=", " ", "s", "t", "d", ":", ":", "f", "6", "4", ":", ":", "c", "o", "n", "s", "t", "s", ":", ":", "P", "I", ";", "\n", "p", "u", "b", " ", "c", "o", "n", "s", "t", " ", "E", ":", " ", "f", "6", "4", " ", "=", " ", "s", "t", "d", ":", ":", "f", "6", "4", ":", ":", "c", "o", "n", "s", "t", "s", ":", ":", "E", ";">> >>

math_required_crates == <<>>

rand_use_statements ==
    << <<"u", "s", "e", " ", "r", "a", "n", "d", ":", ":", "R", "n", "g", ";", "\n", "u", "s", "e", " ", "r", "a", "n", "d", ":", ":", "d", "i", "s", "t", "r", "i", "b", "u", "t", "i", "o", "n", "s", ":", ":", "{", "B", "e", "r", "n", "o", "u", "l", "l", "i", ",", " ", "D", "i", "s", "t", "r", "i", "b", "u", "t", "i", "o", "n", ",", " ", "W", "e", "i", "g", "h", "t", "e", "d", "I", "n", "d", "e", "x", "}", ";", "\n", "u", "s", "e", " ", "r", "a", "n", "d", ":", ":", "s", "e", "q", ":", ":", "S", "l", "i", "c", "e", "R", "a", "n", "d", "o", "m", ";">> >>

rand_required_crates == << <<<<"r", "a", "n", "d">>, <<"0", ".", "8">>>> >>

time_use_statements ==
    << <<"u", "s", "e", " ", "s", "t", "d", ":", ":", "t", "i", "m", "e", ":", ":", "{", "I", "n", "s", "t", "a", "n", "t", ",", " ", "D", "u", "r", "a", "t", "i", "o", "n", ",", " ", "S", "y", "s", "t", "e", "m", "T", "i", "m", "e", " ", "a", "s", " ", "R", "u", "s", "t", "S", "y", "s", "t", "e", "m", "T", "i", "m", "e", "}", ";">>,
       <<"u", "s", "e", " ", "s", "t", "d", ":", ":", "t", "h", "r", "e", "a", "d", ":", ":", "s", "l", "e", "e", "p", ";">>,
       <<"c", "o", "n", "s", "t", " ", "T", "R", "U", "S", "T", "_", "M", "I", "L", "L", "I", "S", "_", "P", "E", "R", "_", "S", "E", "C", "O", "N", "D", ":", " ", "i", "6", "4", " ", "=", " ", "1", "_", "0", "0", "0", ";", "\n", " ", " ", " ", " ", " ", " ", " ", " ", "u", "s", "e", " ", "s", "t", "d", ":", ":", "c", "m", "p", ":", ":", "O", "r", "d", "e", "r", "i", "n", "g", ";">> >>

time_required_crates == <<>>

json_use_statements ==
    << <<"u", "s", "e", " ", "s", "e", "r", "d", "e", "_", "j", "s", "o", "n", ":", ":", "V", "a", "l", "u", "e", ";">>,
       <<"#", "[", "a", "l", "l", "o", "w", "(", "n", "o", "n", "_", "s", "n", "a", "k", "e", "_", "c", "a", "s", "e", ")", "]", "\n", "p", "u", "b", " ", "f", "n", " ", "p", "a", "r", "s", "e", "T", "o", "J", "S", "O", "N", "(", "j", "s", "o", "n", ":", " ", "S", "t", "r", "i", "n", "g", ")", " ", "-", ">", " ", "V", "a", "l", "u", "e", " ", "{", "\n", " ", " ", " ", " ", "s", "e", "r", "d", "e", "_", "j", "s", "o", "n", ":", ":", "f", "r", "o", "m", "_", "s", "t", "r", "(", "&", "j", "s", "o", "n", ")", ".", "u", "n", "w", "r", "a", "p", "_", "o", "r", "(", "V", "a", "l", "u", "e", ":", ":", "N", "u", "l", "l", ")", "\n", "}">> >>

json_required_crates ==
    << <<<<"s", "e", "r", "d", "e">>, <<"1">>>>, <<<<"s", "e", "r", "d", "e", "_", "d", "e", "r", "i", "v", "e">>, <<"1">>>>, <<<<"s", "e", "r", "d", "e", "_", "j", "s", "o", "n">>, <<"1">>>> >>

http_use_statements ==
    << <<"u", "s", "e", " ", "s", "t", "d", ":", ":", "c", "o", "l", "l", "e", "c", "t", "i", "o", "n", "s", ":", ":", "H", "a", "s", "h", "M", "a", "p", ";">>,
       <<"u", "s", "e", " ", "s", "t", "d", ":", ":", "t", "i", "m", "e", ":", ":", "D", "u", "r", "a", "t", "i", "o", "n", ";">>,
       <<"u", "s", "e", " ", "s", "t", "d", ":", ":", "s", "y", "n", "c", ":", ":", "{", "A", "r", "c", ",", " ", "M", "u", "t", "e", "x", "}", ";">>,
       <<"u", "s", "e", " ", "s", "t", "d", ":", ":", "i", "o", ":", ":", "R", "e", "a", "d", ";">>,
       <<"u", "s", "e", " ", "s", "e", "r", "d", "e", "_", "j", "s", "o", "n", ":", ":", "V", "a", "l", "u", "e", ";">>,
       <<"u", "s", "e", " ", "t", "i", "n", "y", "_", "h", "t", "t", "p", ":", ":", "{", "H", "e", "a", "d", "e", "r", ",", " ", "R", "e", "s", "p", "o", "n", "s", "e", " ", "a", "s", " ", "T", "i", "n", "y", "R", "e", "s", "p", "o", "n", "s", "e", ",", " ", "S", "e", "r", "v", "e", "r", " ", "a", "s", " ", "T", "i", "n", "y", "S", "e", "r", "v", "e", "r", ",", " ", "S", "t", "a", "t", "u", "s", "C", "o", "d", "e", "}", ";">>,
       <<"#", "[", "d", "e", "r", "i", "v", "e", "(", "D", "e", "b", "u", "g", ",", " ", "C", "l", "o", "n", "e", ",", " ", "s", "e", "r", "d", "e", "_", "d", "e", "r", "i", "v", "e", ":", ":", "S", "e", "r", "i", "a", "l", "i", "z", "e", ",", " ", "s", "e", "r", "d", "e", "_", "d", "e", "r", "i", "v", "e", ":", ":", "D", "e", "s", "e", "r", "i", "a", "l", "i", "z", "e", ")", "]", "\n", "p", "u", "b", " ", "s", "t", "r", "u", "c", "t", " ", "H", "t", "t", "p", "R", "e", "q", "u", "e", "s", "t", "O", "p", "t", "i", "o", "n", "s", " ", "{">> >>

http_required_crates ==
    << <<<<"s", "e", "r", "d", "e">>, <<"1">>>>, <<<<"s", "e", "r", "d", "e", "_", "d", "e", "r", "i", "v", "e">>, <<"1">>>>, <<<<"s", "e", "r", "d", "e", "_", "j", "s", "o", "n">>, <<"1">>>>,
       <<<<"u", "r", "e", "q">>, <<"3">>>>, <<<<"t", "i", "n", "y", "_", "h", "t", "t", "p">>, <<"0", ".", "1", "2">>>> >>

\* Option<StdlibModule>
NoModule == [some |-> FALSE, use_statements |-> <<>>, required_crates |-> <<>>]

StdlibModule(uses, crates) ==
    [some |-> TRUE, use_statements |-> uses, required_crates |-> crates]

\* a resolver with an empty table
C14_ResolveNothing(module_name) == NoModule

\* stdlib::resolve
resolve(module_name) ==
    IF module_name = <<"m", "a", "t", "h">> THEN StdlibModule(math_use_statements, math_required_crates)
    ELSE IF module_name = <<"r", "a", "n", "d">> THEN StdlibModule(rand_use_statements, rand_required_crates)
    ELSE IF module_name = <<"t", "i", "m", "e">> THEN StdlibModule(time_use_statements, time_required_crates)
    ELSE IF module_name = <<"j", "s", "o", "n">> THEN StdlibModule(json_use_statements, json_required_crates)
    ELSE NoModule

(***************************************************************************)
(* transpiler/imports.rs.  An ImportDecl is [src, specifiers]; a specifier *)
(* is [k |-> "default" | "named" | "ns", local].                           *)
(***************************************************************************)

\* Ok(ImportInfo { .. })
ImportInfo(uses, crates, aliases) ==
    [ok |-> TRUE, err |-> "", use_statements |-> uses,
     required_crates |-> crates, module_aliases |-> aliases]

\* bail!(msg)
ImportBail(msg) ==
    [ok |-> FALSE, err |-> msg, use_statements |-> <<>>,
     required_crates |-> <<>>, module_aliases |-> <<>>]

\* .into_iter().map(|(name, _version)| name).collect()
crate_names(crates) == [k \in 1..Len(crates) |-> crates[k][1]]

\* module_path.split("::").next()
top_level(module_path) ==
    LET seps == {i \in 1..(Len(module_path) - 1) :
                     module_path[i] = ":" /\ module_path[i + 1] = ":"}
    IN IF seps = {} THEN module_path ELSE Take(module_path, MinOf(seps) - 1)

\* an import that requires no crate
C4_NoCrate(module_path) == <<>>

\* crate_name.into_iter().collect(): no crate for std, core and alloc
crate_name(module_path) ==
    IF top_level(module_path) \in {<<"s", "t", "d">>, <<"c", "o", "r", "e">>, <<"a", "l", "l", "o", "c">>} THEN <<>>
    ELSE <<top_level(module_path)>>

\* a trusty:* branch that rejects every import
C13_AlwaysBail(module_name, has_default, alias, has_non_default_specifier) ==
    ImportBail("unknown module")

\* the trusty:* branch
import_trusty(module_name, has_default, alias, has_non_default_specifier) ==
    IF has_default /\ has_non_default_specifier
    THEN ImportBail("Mixed default + named imports are not supported for trusty:* modules.")
    ELSE IF resolve(module_name).some THEN
        IF has_default THEN
            IF module_name # <<"m", "a", "t", "h">>
            THEN ImportBail("Default import alias is currently supported only for \"trusty:math\".")
            ELSE ImportInfo(
                   << <<"m", "o", "d", " ", "_", "_", "t", "r", "u", "s", "t", "y", "_">> \o module_name \o <<" ", "{", "\n">>
                      \o join(resolve(module_name).use_statements, <<"\n">>)
                      \o <<"\n", "}", "\n", "u", "s", "e", " ", "_", "_", "t", "r", "u", "s", "t", "y", "_">> \o module_name \o <<" ", "a", "s", " ">> \o alias \o <<";">> >>,
                   crate_names(resolve(module_name).required_crates),
                   <<alias>>)
        ELSE ImportInfo(resolve(module_name).use_statements,
                        crate_names(resolve(module_name).required_crates),
                        <<>>)
    ELSE ImportInfo(<< <<"/", "/", " ", "t", "r", "u", "s", "t", "y", ":">> \o module_name \o <<" ", EmDash, " ">>
                       \o <<"m", "o", "d", "u", "l", "e", " ", "n", "o", "t", " ", "y", "e", "t", " ", "i", "m", "p", "l", "e", "m", "e", "n", "t", "e", "d">> >>,
                    <<>>, <<>>)

\* the branch of local modules (./foo, ../bar)
import_local(has_default) ==
    IF has_default
    THEN ImportBail("Default import aliases are not supported for local TRUST modules yet.")
    ELSE ImportInfo(<<>>, <<>>, <<>>)

\* the specifier names of an external import
import_names(specifiers) ==
    [k \in 1..Len(specifiers) |->
        IF specifiers[k].k = "ns" THEN <<"*", " ", "a", "s", " ">> \o specifiers[k].local
        ELSE specifiers[k].local]

\* the branch of raw external Rust crates
import_external(src, specifiers, has_default, alias, has_non_default_specifier) ==
    LET module_path == replace(src, <<"/">>, <<":", ":">>)
        names == import_names(specifiers)
        use_statement ==
            IF Len(names) = 0 THEN <<"u", "s", "e", " ">> \o module_path \o <<";">>
            ELSE IF Len(names) = 1 THEN <<"u", "s", "e", " ">> \o module_path \o <<":", ":">> \o names[1] \o <<";">>
            ELSE <<"u", "s", "e", " ">> \o module_path \o <<":", ":", "{">> \o join(names, <<",", " ">>) \o <<"}", ";">>
    IN
    IF has_default THEN
        IF has_non_default_specifier
        THEN ImportBail("Mixed default + named imports are not supported for external crates.")
        ELSE ImportInfo(<< <<"u", "s", "e", " ">> \o module_path \o <<" ", "a", "s", " ">> \o alias \o <<";">> >>,
                        crate_name(module_path), <<alias>>)
    ELSE ImportInfo(<<use_statement>>, crate_name(module_path), <<>>)

transpile_import(import) ==
    LET src == import.src
        defaults == {k \in 1..Len(import.specifiers) : import.specifiers[k].k = "default"}
        has_default == defaults # {}
        default_alias == IF has_default THEN import.specifiers[MinOf(defaults)].local ELSE <<>>
        has_non_default_specifier ==
            \E k \in 1..Len(import.specifiers) : import.specifiers[k].k # "default"
    IN
    IF starts_with(src, <<"t", "r", "u", "s", "t", "y", ":">>)
    THEN import_trusty(Drop(src, 7), has_default, default_alias, has_non_default_specifier)
    ELSE IF starts_with(src, <<".">>) THEN import_local(has_default)
    ELSE import_external(src, import.specifiers, has_default, default_alias,
                         has_non_default_specifier)

(***************************************************************************)
(* transpiler/structs.rs.  A TsInterfaceDecl is [name, members]; a member  *)
(* is a property signature [name, type] with an identifier key, type being *)
(* NoType when the annotation is absent.                                   *)
(***************************************************************************)

interface_field(name, member) ==
    LET annotated == IF member.type = NoType THEN <<"i", "3", "2">>
                     ELSE transpile_type_annotation(member.type)
        field_type == IF annotated = name THEN <<"B", "o", "x", "<">> \o annotated \o <<">">> ELSE annotated
    IN <<" ", " ", " ", " ">> \o member.name \o <<":", " ">> \o field_type

\* derives that ignore the json flag
C6_AlwaysPlain(json_enabled) == <<"#", "[", "d", "e", "r", "i", "v", "e", "(", "D", "e", "b", "u", "g", ",", " ", "C", "l", "o", "n", "e", ")", "]">>

interface_derives(json_enabled) ==
    IF json_enabled
    THEN <<"#", "[", "d", "e", "r", "i", "v", "e", "(", "D", "e", "b", "u", "g", ",", " ", "C", "l", "o", "n", "e", ",", " ", "s", "e", "r", "d", "e", "_", "d", "e", "r", "i", "v", "e", ":", ":", "S", "e", "r", "i", "a", "l", "i", "z", "e", ",", " ", "s", "e", "r", "d", "e", "_", "d", "e", "r", "i", "v", "e", ":", ":", "D", "e", "s", "e", "r", "i", "a", "l", "i", "z", "e", ")", "]">>
    ELSE <<"#", "[", "d", "e", "r", "i", "v", "e", "(", "D", "e", "b", "u", "g", ",", " ", "C", "l", "o", "n", "e", ")", "]">>

transpile_interface(decl, json_enabled) ==
    LET fields == [k \in 1..Len(decl.members) |-> interface_field(decl.name, decl.members[k])]
    IN interface_derives(json_enabled) \o <<"\n", "s", "t", "r", "u", "c", "t", " ">> \o decl.name \o <<" ", "{", "\n">>
       \o join(fields, <<",", "\n">>) \o <<",", "\n", "}">>

(***************************************************************************)
(* transpiler/enums.rs.  A TsEnumDecl is [name, members]; a member is      *)
(* [name, init] with init = [d |-> "num", v] | [d |-> "str", v] |          *)
(* [d |-> "none"] (the Discriminant of the member).                        *)
(***************************************************************************)

enum_variant(member) ==
    IF member.init.d = "num" THEN <<" ", " ", " ", " ">> \o member.name \o <<" ", "=", " ">> \o member.init.v
    ELSE <<" ", " ", " ", " ">> \o member.name

\* string_values: the positions of the members with a string discriminant
string_values(decl) == {k \in 1..Len(decl.members) : decl.members[k].init.d = "str"}

as_str_arm(name, member) ==
    <<" ", " ", " ", " ", " ", " ", " ", " ", " ", " ", " ", " ">> \o name \o <<":", ":">> \o member.name \o <<" ", "=", ">", " ", "\"">> \o member.init.v \o <<"\"">>

enum_def(decl) ==
    <<"#", "[", "d", "e", "r", "i", "v", "e", "(", "D", "e", "b", "u", "g", ",", " ", "C", "l", "o", "n", "e", ")", "]", "\n", "e", "n", "u", "m", " ">> \o decl.name \o <<" ", "{", "\n">>
    \o join([k \in 1..Len(decl.members) |-> enum_variant(decl.members[k])], <<",", "\n">>)
    \o <<",", "\n", "}">>

enum_impl_block(decl) ==
    LET sv == string_values(decl)
        arms == [n \in 1..Cardinality(sv) |-> as_str_arm(decl.name, decl.members[Kth(sv, n)])]
    IN <<"i", "m", "p", "l", " ">> \o decl.name
       \o <<" ", "{", "\n", " ", " ", " ", " ", "p", "u", "b", " ", "f", "n", " ", "a", "s", "_", "s", "t", "r", "(", "&", "s", "e", "l", "f", ")", " ", "-", ">", " ", "&", "'", "s", "t", "a", "t", "i", "c", " ", "s", "t", "r", " ", "{", "\n", " ", " ", " ", " ", " ", " ", " ", " ", "m", "a", "t", "c", "h", " ", "s", "e", "l", "f", " ", "{", "\n">>
       \o join(arms, <<",", "\n">>)
       \o <<"\n", " ", " ", " ", " ", " ", " ", " ", " ", "}", "\n", " ", " ", " ", " ", "}", "\n", "}", "\n", "\n", "i", "m", "p", "l", " ", "s", "t", "d", ":", ":", "f", "m", "t", ":", ":", "D", "i", "s", "p", "l", "a", "y", " ", "f", "o", "r", " ">> \o decl.name
       \o <<" ", "{", "\n", " ", " ", " ", " ", "f", "n", " ", "f", "m", "t", "(", "&", "s", "e", "l", "f", ",", " ", "f", ":", " ", "&", "m", "u", "t", " ", "s", "t", "d", ":", ":", "f", "m", "t", ":", ":", "F", "o", "r", "m", "a", "t", "t", "e", "r", "<", "'", "_", ">", ")", " ", "-", ">", " ", "s", "t", "d", ":", ":", "f", "m", "t", ":", ":", "R", "e", "s", "u", "l", "t", " ", "{", "\n">>
       \o <<" ", " ", " ", " ", " ", " ", " ", " ", "w", "r", "i", "t", "e", "!", "(", "f", ",", " ", "\"", "{", "}", "\"", ",", " ", "s", "e", "l", "f", ".", "a", "s", "_", "s", "t", "r", "(", ")", ")", "\n", " ", " ", " ", " ", "}", "\n", "}">>

transpile_enum(decl) ==
    IF string_values(decl) = {} THEN enum_def(decl)
    ELSE enum_def(decl) \o <<"\n", "\n">> \o enum_impl_block(decl)

(***************************************************************************)
(* transpiler/expressions.rs: transpile_member_call, after the receiver    *)
(* and the arguments are lowered.  member_type is the receiver's binding   *)
(* in the scope, [some, ty].                                               *)
(***************************************************************************)

SomeText(text) == [some |-> TRUE, val |-> text]

NoText == [some |-> FALSE, val |-> <<>>]

\* char::is_uppercase, on the characters of the model's alphabet
is_uppercase(c) ==
    c \in {"A", "B", "C", "D", "E", "F", "G", "H", "I", "J", "K", "L", "M",
           "N", "O", "P", "Q", "R", "S", "T", "U", "V", "W", "X", "Y", "Z"}

\* transpile_member_call, the match on the map and set methods
map_methods(obj, prop, arg_strs, member_type) ==
    IF prop = <<"s", "e", "t">> /\ Len(arg_strs) = 2 THEN
        SomeText(obj \o <<".", "i", "n", "s", "e", "r", "t", "(">> \o arg_strs[1] \o <<",", " ">> \o arg_strs[2] \o <<")">>)
    ELSE IF prop = <<"g", "e", "t">> THEN
        SomeText(obj \o <<".", "g", "e", "t", "(", "&">> \o join(arg_strs, <<",", " ">>) \o <<")">>)
    ELSE IF prop = <<"h", "a", "s">> /\ Len(arg_strs) = 1 THEN
        IF member_type.some /\ starts_with(member_type.ty, <<"H", "a", "s", "h", "S", "e", "t">>)
        THEN SomeText(obj \o <<".", "c", "o", "n", "t", "a", "i", "n", "s", "(", "&">> \o arg_strs[1] \o <<")">>)
        ELSE SomeText(obj \o <<".", "c", "o", "n", "t", "a", "i", "n", "s", "_", "k", "e", "y", "(", "&">> \o arg_strs[1] \o <<")">>)
    ELSE IF prop = <<"d", "e", "l", "e", "t", "e">> THEN
        SomeText(obj \o <<".", "r", "e", "m", "o", "v", "e", "(", "&">> \o join(arg_strs, <<",", " ">>) \o <<")">>)
    ELSE IF prop = <<"a", "d", "d">> THEN
        SomeText(obj \o <<".", "i", "n", "s", "e", "r", "t", "(">> \o join(arg_strs, <<",", " ">>) \o <<")">>)
    ELSE NoText

\* transpile_member_call, the match on the string methods
string_methods(string_obj, is_string, prop, arg_strs) ==
    IF prop = <<"t", "o", "U", "p", "p", "e", "r", "C", "a", "s", "e">> THEN
        SomeText(string_obj
                 \o <<".", "t", "o", "_", "u", "p", "p", "e", "r", "c", "a", "s", "e", "(", ")">>)
    ELSE IF prop = <<"t", "o", "L", "o", "w", "e", "r", "C", "a", "s", "e">> THEN
        SomeText(string_obj
                 \o <<".", "t", "o", "_", "l", "o", "w", "e", "r", "c", "a", "s", "e", "(", ")">>)
    ELSE IF prop = <<"s", "t", "a", "r", "t", "s", "W", "i", "t", "h">> /\ Len(arg_strs) = 1 THEN
        SomeText(string_obj
                 \o <<".", "s", "t", "a", "r", "t", "s", "_", "w", "i", "t", "h", "(", "(">>
                 \o arg_strs[1]
                 \o <<")", ".", "a", "s", "_", "s", "t", "r", "(", ")", ")">>)
    ELSE IF prop = <<"e", "n", "d", "s", "W", "i", "t", "h">> /\ Len(arg_strs) = 1 THEN
        SomeText(string_obj
                 \o <<".", "e", "n", "d", "s", "_", "w", "i", "t", "h", "(", "(">>
                 \o arg_strs[1]
                 \o <<")", ".", "a", "s", "_", "s", "t", "r", "(", ")", ")">>)
    ELSE IF prop = <<"i", "n", "c", "l", "u", "d", "e", "s">> /\ is_string /\ Len(arg_strs) = 1 THEN
        SomeText(string_obj
                 \o <<".", "c", "o", "n", "t", "a", "i", "n", "s", "(", "(">>
                 \o arg_strs[1]
                 \o <<")", ".", "a", "s", "_", "s", "t", "r", "(", ")", ")">>)
    ELSE IF prop = <<"i", "n", "d", "e", "x", "O", "f">> /\ is_string /\ Len(arg_strs) = 1 THEN
        SomeText(<<"{", " ", "l", "e", "t", " ", "_", "_", "t", "r", "u", "s", "t", "_", "s", " ", "=", " ", "&">>
                 \o string_obj
                 \o <<";", " ", "m", "a", "t", "c", "h", " ", "_", "_", "t", "r", "u", "s", "t", "_", "s", ".", "f", "i", "n", "d", "(", "(">>
                 \o arg_strs[1]
                 \o <<")", ".", "a", "s", "_", "s", "t", "r", "(", ")", ")", " ", "{", " ", "S", "o", "m", "e", "(", "_", "_", "t", "r", "u", "s", "t", "_", "b", "y", "t", "e", ")", " ", "=", ">", " ", "_", "_", "t", "r", "u", "s", "t", "_", "s", ".", "c", "h", "a", "r", "_", "i", "n", "d", "i", "c", "e", "s", "(", ")", ".", "t", "a", "k", "e", "_", "w", "h", "i", "l", "e", "(", "|", "(", "i", ",", " ", "_", ")", "|", " ", "*", "i", " ", "<", " ", "_", "_", "t", "r", "u", "s", "t", "_", "b", "y", "t", "e", ")", ".", "c", "o", "u", "n", "t", "(", ")", " ", "a", "s", " ", "i", "3", "2", ",", " ", "N", "o", "n", "e", " ", "=", ">", " ", "-", "1", " ", "}", " ", "}">>)
    ELSE IF prop = <<"l", "a", "s", "t", "I", "n", "d", "e", "x", "O", "f">> /\ Len(arg_strs) = 1 THEN
        SomeText(<<"{", " ", "l", "e", "t", " ", "_", "_", "t", "r", "u", "s", "t", "_", "s", " ", "=", " ", "&">>
                 \o string_obj
                 \o <<";", " ", "m", "a", "t", "c", "h", " ", "_", "_", "t", "r", "u", "s", "t", "_", "s", ".", "r", "f", "i", "n", "d", "(", "(">>
                 \o arg_strs[1]
                 \o <<")", ".", "a", "s", "_", "s", "t", "r", "(", ")", ")", " ", "{", " ", "S", "o", "m", "e", "(", "_", "_", "t", "r", "u", "s", "t", "_", "b", "y", "t", "e", ")", " ", "=", ">", " ", "_", "_", "t", "r", "u", "s", "t", "_", "s", ".", "c", "h", "a", "r", "_", "i", "n", "d", "i", "c", "e", "s", "(", ")", ".", "t", "a", "k", "e", "_", "w", "h", "i", "l", "e", "(", "|", "(", "i", ",", " ", "_", ")", "|", " ", "*", "i", " ", "<", " ", "_", "_", "t", "r", "u", "s", "t", "_", "b", "y", "t", "e", ")", ".", "c", "o", "u", "n", "t", "(", ")", " ", "a", "s", " ", "i", "3", "2", ",", " ", "N", "o", "n", "e", " ", "=", ">", " ", "-", "1", " ", "}", " ", "}">>)
    ELSE IF prop = <<"r", "e", "p", "l", "a", "c", "e">> /\ Len(arg_strs) = 2 THEN
        SomeText(string_obj
                 \o <<".", "r", "e", "p", "l", "a", "c", "e", "n", "(", "(">>
                 \o arg_strs[1]
                 \o <<")", ".", "a", "s", "_", "s", "t", "r", "(", ")", ",", " ", "(">>
                 \o arg_strs[2]
                 \o <<")", ".", "a", "s", "_", "s", "t", "r", "(", ")", ",", " ", "1", ")">>)
    ELSE IF prop = <<"r", "e", "p", "l", "a", "c", "e", "A", "l", "l">> /\ Len(arg_strs) = 2 THEN
        SomeText(string_obj
                 \o <<".", "r", "e", "p", "l", "a", "c", "e", "(", "(">>
                 \o arg_strs[1]
                 \o <<")", ".", "a", "s", "_", "s", "t", "r", "(", ")", ",", " ", "(">>
                 \o arg_strs[2]
                 \o <<")", ".", "a", "s", "_", "s", "t", "r", "(", ")", ")">>)
    ELSE IF prop = <<"t", "r", "i", "m">> THEN
        SomeText(string_obj
                 \o <<".", "t", "r", "i", "m", "(", ")", ".", "t", "o", "_", "s", "t", "r", "i", "n", "g", "(", ")">>)
    ELSE IF prop = <<"t", "r", "i", "m", "S", "t", "a", "r", "t">> THEN
        SomeText(string_obj
                 \o <<".", "t", "r", "i", "m", "_", "s", "t", "a", "r", "t", "(", ")", ".", "t", "o", "_", "s", "t", "r", "i", "n", "g", "(", ")">>)
    ELSE IF prop = <<"t", "r", "i", "m", "E", "n", "d">> THEN
        SomeText(string_obj
                 \o <<".", "t", "r", "i", "m", "_", "e", "n", "d", "(", ")", ".", "t", "o", "_", "s", "t", "r", "i", "n", "g", "(", ")">>)
    ELSE IF prop = <<"r", "e", "p", "e", "a", "t">> /\ Len(arg_strs) = 1 THEN
        SomeText(string_obj
                 \o <<".", "r", "e", "p", "e", "a", "t", "(", "(">>
                 \o arg_strs[1]
                 \o <<")", ".", "m", "a", "x", "(", "0", ")", " ", "a", "s", " ", "u", "s", "i", "z", "e", ")">>)
    ELSE IF prop = <<"c", "h", "a", "r", "A", "t">> /\ Len(arg_strs) = 1 THEN
        SomeText(<<"{", " ", "l", "e", "t", " ", "_", "_", "t", "r", "u", "s", "t", "_", "i", " ", "=", " ", "(">>
                 \o arg_strs[1]
                 \o <<")", " ", "a", "s", " ", "i", "s", "i", "z", "e", ";", " ", "i", "f", " ", "_", "_", "t", "r", "u", "s", "t", "_", "i", " ", "<", " ", "0", " ", "{", " ", "S", "t", "r", "i", "n", "g", ":", ":", "n", "e", "w", "(", ")", " ", "}", " ", "e", "l", "s", "e", " ", "{", " ">>
                 \o string_obj
                 \o <<".", "c", "h", "a", "r", "s", "(", ")", ".", "n", "t", "h", "(", "_", "_", "t", "r", "u", "s", "t", "_", "i", " ", "a", "s", " ", "u", "s", "i", "z", "e", ")", ".", "m", "a", "p", "(", "|", "c", "|", " ", "c", ".", "t", "o", "_", "s", "t", "r", "i", "n", "g", "(", ")", ")", ".", "u", "n", "w", "r", "a", "p", "_", "o", "r", "_", "d", "e", "f", "a", "u", "l", "t", "(", ")", " ", "}", " ", "}">>)
    ELSE IF prop = <<"a", "t">> /\ Len(arg_strs) = 1 THEN
        SomeText(<<"{", " ", "l", "e", "t", " ", "_", "_", "t", "r", "u", "s", "t", "_", "c", "h", "a", "r", "s", ":", " ", "V", "e", "c", "<", "c", "h", "a", "r", ">", " ", "=", " ">>
                 \o string_obj
                 \o <<".", "c", "h", "a", "r", "s", "(", ")", ".", "c", "o", "l", "l", "e", "c", "t", "(", ")", ";", " ", "l", "e", "t", " ", "_", "_", "t", "r", "u", "s", "t", "_", "l", "e", "n", " ", "=", " ", "_", "_", "t", "r", "u", "s", "t", "_", "c", "h", "a", "r", "s", ".", "l", "e", "n", "(", ")", " ", "a", "s", " ", "i", "s", "i", "z", "e", ";", " ", "l", "e", "t", " ", "_", "_", "t", "r", "u", "s", "t", "_", "i", " ", "=", " ", "(">>
                 \o arg_strs[1]
                 \o <<")", " ", "a", "s", " ", "i", "s", "i", "z", "e", ";", " ", "l", "e", "t", " ", "_", "_", "t", "r", "u", "s", "t", "_", "p", "o", "s", " ", "=", " ", "i", "f", " ", "_", "_", "t", "r", "u", "s", "t", "_", "i", " ", "<", " ", "0", " ", "{", " ", "_", "_", "t", "r", "u", "s", "t", "_", "l", "e", "n", " ", "+", " ", "_", "_", "t", "r", "u", "s", "t", "_", "i", " ", "}", " ", "e", "l", "s", "e", " ", "{", " ", "_", "_", "t", "r", "u", "s", "t", "_", "i", " ", "}", ";", " ", "i", "f", " ", "_", "_", "t", "r", "u", "s", "t", "_", "p", "o", "s", " ", "<", " ", "0", " ", "|", "|", " ", "_", "_", "t", "r", "u", "s", "t", "_", "p", "o", "s", " ", ">", "=", " ", "_", "_", "t", "r", "u", "s", "t", "_", "l", "e", "n", " ", "{", " ", "S", "t", "r", "i", "n", "g", ":", ":", "n", "e", "w", "(", ")", " ", "}", " ", "e", "l", "s", "e", " ", "{", " ", "_", "_", "t", "r", "u", "s", "t", "_", "c", "h", "a", "r", "s", "[", "_", "_", "t", "r", "u", "s", "t", "_", "p", "o", "s", " ", "a", "s", " ", "u", "s", "i", "z", "e", "]", ".", "t", "o", "_", "s", "t", "r", "i", "n", "g", "(", ")", " ", "}", " ", "}">>)
    ELSE IF prop = <<"s", "p", "l", "i", "t">> /\ Len(arg_strs) = 0 THEN
        SomeText(<<"v", "e", "c", "!", "[", "(">>
                 \o string_obj
                 \o <<")", ".", "t", "o", "_", "s", "t", "r", "i", "n", "g", "(", ")", "]">>)
    ELSE IF prop = <<"s", "p", "l", "i", "t">> /\ Len(arg_strs) = 1 THEN
        SomeText(string_obj
                 \o <<".", "s", "p", "l", "i", "t", "(", "(">>
                 \o arg_strs[1]
                 \o <<")", ".", "a", "s", "_", "s", "t", "r", "(", ")", ")", ".", "m", "a", "p", "(", "|", "s", "|", " ", "s", ".", "t", "o", "_", "s", "t", "r", "i", "n", "g", "(", ")", ")", ".", "c", "o", "l", "l", "e", "c", "t", ":", ":", "<", "V", "e", "c", "<", "S", "t", "r", "i", "n", "g", ">", ">", "(", ")">>)
    ELSE IF prop = <<"s", "l", "i", "c", "e">> /\ Len(arg_strs) = 1 THEN
        SomeText(<<"{", " ", "l", "e", "t", " ", "_", "_", "t", "r", "u", "s", "t", "_", "c", "h", "a", "r", "s", ":", " ", "V", "e", "c", "<", "c", "h", "a", "r", ">", " ", "=", " ">>
                 \o string_obj
                 \o <<".", "c", "h", "a", "r", "s", "(", ")", ".", "c", "o", "l", "l", "e", "c", "t", "(", ")", ";", " ", "l", "e", "t", " ", "_", "_", "t", "r", "u", "s", "t", "_", "l", "e", "n", " ", "=", " ", "_", "_", "t", "r", "u", "s", "t", "_", "c", "h", "a", "r", "s", ".", "l", "e", "n", "(", ")", " ", "a", "s", " ", "i", "s", "i", "z", "e", ";", " ", "l", "e", "t", " ", "_", "_", "t", "r", "u", "s", "t", "_", "s", "t", "a", "r", "t", " ", "=", " ", "(">>
                 \o arg_strs[1]
                 \o <<")", " ", "a", "s", " ", "i", "s", "i", "z", "e", ";", " ", "l", "e", "t", " ", "_", "_", "t", "r", "u", "s", "t", "_", "f", "r", "o", "m", " ", "=", " ", "i", "f", " ", "_", "_", "t", "r", "u", "s", "t", "_", "s", "t", "a", "r", "t", " ", "<", " ", "0", " ", "{", " ", "(", "_", "_", "t", "r", "u", "s", "t", "_", "l", "e", "n", " ", "+", " ", "_", "_", "t", "r", "u", "s", "t", "_", "s", "t", "a", "r", "t", ")", ".", "m", "a", "x", "(", "0", ")", " ", "}", " ", "e", "l", "s", "e", " ", "{", " ", "_", "_", "t", "r", "u", "s", "t", "_", "s", "t", "a", "r", "t", ".", "m", "i", "n", "(", "_", "_", "t", "r", "u", "s", "t", "_", "l", "e", "n", ")", " ", "}", " ", "a", "s", " ", "u", "s", "i", "z", "e", ";", " ", "_", "_", "t", "r", "u", "s", "t", "_", "c", "h", "a", "r", "s", "[", "_", "_", "t", "r", "u", "s", "t", "_", "f", "r", "o", "m", ".", ".", "]", ".", "i", "t", "e", "r", "(", ")", ".", "c", "o", "l", "l", "e", "c", "t", ":", ":", "<", "S", "t", "r", "i", "n", "g", ">", "(", ")", " ", "}">>)
    ELSE IF prop = <<"s", "l", "i", "c", "e">> /\ Len(arg_strs) = 2 THEN
        SomeText(<<"{", " ", "l", "e", "t", " ", "_", "_", "t", "r", "u", "s", "t", "_", "c", "h", "a", "r", "s", ":", " ", "V", "e", "c", "<", "c", "h", "a", "r", ">", " ", "=", " ">>
                 \o string_obj
                 \o <<".", "c", "h", "a", "r", "s", "(", ")", ".", "c", "o", "l", "l", "e", "c", "t", "(", ")", ";", " ", "l", "e", "t", " ", "_", "_", "t", "r", "u", "s", "t", "_", "l", "e", "n", " ", "=", " ", "_", "_", "t", "r", "u", "s", "t", "_", "c", "h", "a", "r", "s", ".", "l", "e", "n", "(", ")", " ", "a", "s", " ", "i", "s", "i", "z", "e", ";", " ", "l", "e", "t", " ", "_", "_", "t", "r", "u", "s", "t", "_", "s", "t", "a", "r", "t", " ", "=", " ", "(">>
                 \o arg_strs[1]
                 \o <<")", " ", "a", "s", " ", "i", "s", "i", "z", "e", ";", " ", "l", "e", "t", " ", "_", "_", "t", "r", "u", "s", "t", "_", "e", "n", "d", " ", "=", " ", "(">>
                 \o arg_strs[2]
                 \o <<")", " ", "a", "s", " ", "i", "s", "i", "z", "e", ";", " ", "l", "e", "t", " ", "_", "_", "t", "r", "u", "s", "t", "_", "f", "r", "o", "m", " ", "=", " ", "i", "f", " ", "_", "_", "t", "r", "u", "s", "t", "_", "s", "t", "a", "r", "t", " ", "<", " ", "0", " ", "{", " ", "(", "_", "_", "t", "r", "u", "s", "t", "_", "l", "e", "n", " ", "+", " ", "_", "_", "t", "r", "u", "s", "t", "_", "s", "t", "a", "r", "t", ")", ".", "m", "a", "x", "(", "0", ")", " ", "}", " ", "e", "l", "s", "e", " ", "{", " ", "_", "_", "t", "r", "u", "s", "t", "_", "s", "t", "a", "r", "t", ".", "m", "i", "n", "(", "_", "_", "t", "r", "u", "s", "t", "_", "l", "e", "n", ")", " ", "}", " ", "a", "s", " ", "u", "s", "i", "z", "e", ";", " ", "l", "e", "t", " ", "_", "_", "t", "r", "u", "s", "t", "_", "t", "o", " ", "=", " ", "i", "f", " ", "_", "_", "t", "r", "u", "s", "t", "_", "e", "n", "d", " ", "<", " ", "0", " ", "{", " ", "(", "_", "_", "t", "r", "u", "s", "t", "_", "l", "e", "n", " ", "+", " ", "_", "_", "t", "r", "u", "s", "t", "_", "e", "n", "d", ")", ".", "m", "a", "x", "(", "0", ")", " ", "}", " ", "e", "l", "s", "e", " ", "{", " ", "_", "_", "t", "r", "u", "s", "t", "_", "e", "n", "d", ".", "m", "i", "n", "(", "_", "_", "t", "r", "u", "s", "t", "_", "l", "e", "n", ")", " ", "}", " ", "a", "s", " ", "u", "s", "i", "z", "e", ";", " ", "i", "f", " ", "_", "_", "t", "r", "u", "s", "t", "_", "t", "o", " ", "<", "=", " ", "_", "_", "t", "r", "u", "s", "t", "_", "f", "r", "o", "m", " ", "{", " ", "S", "t", "r", "i", "n", "g", ":", ":", "n", "e", "w", "(", ")", " ", "}", " ", "e", "l", "s", "e", " ", "{", " ", "_", "_", "t", "r", "u", "s", "t", "_", "c", "h", "a", "r", "s", "[", "_", "_", "t", "r", "u", "s", "t", "_", "f", "r", "o", "m", ".", ".", "_", "_", "t", "r", "u", "s", "t", "_", "t", "o", "]", ".", "i", "t", "e", "r", "(", ")", ".", "c", "o", "l", "l", "e", "c", "t", ":", ":", "<", "S", "t", "r", "i", "n", "g", ">", "(", ")", " ", "}", " ", "}">>)
    ELSE IF prop = <<"s", "u", "b", "s", "t", "r", "i", "n", "g">> /\ Len(arg_strs) = 1 THEN
        SomeText(<<"{", " ", "l", "e", "t", " ", "_", "_", "t", "r", "u", "s", "t", "_", "c", "h", "a", "r", "s", ":", " ", "V", "e", "c", "<", "c", "h", "a", "r", ">", " ", "=", " ">>
                 \o string_obj
                 \o <<".", "c", "h", "a", "r", "s", "(", ")", ".", "c", "o", "l", "l", "e", "c", "t", "(", ")", ";", " ", "l", "e", "t", " ", "_", "_", "t", "r", "u", "s", "t", "_", "l", "e", "n", " ", "=", " ", "_", "_", "t", "r", "u", "s", "t", "_", "c", "h", "a", "r", "s", ".", "l", "e", "n", "(", ")", ";", " ", "l", "e", "t", " ", "_", "_", "t", "r", "u", "s", "t", "_", "s", "t", "a", "r", "t", " ", "=", " ", "(">>
                 \o arg_strs[1]
                 \o <<")", ".", "m", "a", "x", "(", "0", ")", " ", "a", "s", " ", "u", "s", "i", "z", "e", ";", " ", "_", "_", "t", "r", "u", "s", "t", "_", "c", "h", "a", "r", "s", "[", "_", "_", "t", "r", "u", "s", "t", "_", "s", "t", "a", "r", "t", ".", "m", "i", "n", "(", "_", "_", "t", "r", "u", "s", "t", "_", "l", "e", "n", ")", ".", ".", "]", ".", "i", "t", "e", "r", "(", ")", ".", "c", "o", "l", "l", "e", "c", "t", ":", ":", "<", "S", "t", "r", "i", "n", "g", ">", "(", ")", " ", "}">>)
    ELSE IF prop = <<"s", "u", "b", "s", "t", "r", "i", "n", "g">> /\ Len(arg_strs) = 2 THEN
        SomeText(<<"{", " ", "l", "e", "t", " ", "_", "_", "t", "r", "u", "s", "t", "_", "c", "h", "a", "r", "s", ":", " ", "V", "e", "c", "<", "c", "h", "a", "r", ">", " ", "=", " ">>
                 \o string_obj
                 \o <<".", "c", "h", "a", "r", "s", "(", ")", ".", "c", "o", "l", "l", "e", "c", "t", "(", ")", ";", " ", "l", "e", "t", " ", "_", "_", "t", "r", "u", "s", "t", "_", "l", "e", "n", " ", "=", " ", "_", "_", "t", "r", "u", "s", "t", "_", "c", "h", "a", "r", "s", ".", "l", "e", "n", "(", ")", ";", " ", "l", "e", "t", " ", "_", "_", "t", "r", "u", "s", "t", "_", "s", "t", "a", "r", "t", " ", "=", " ", "(">>
                 \o arg_strs[1]
                 \o <<")", ".", "m", "a", "x", "(", "0", ")", " ", "a", "s", " ", "u", "s", "i", "z", "e", ";", " ", "l", "e", "t", " ", "_", "_", "t", "r", "u", "s", "t", "_", "e", "n", "d", " ", "=", " ", "(">>
                 \o arg_strs[2]
                 \o <<")", ".", "m", "a", "x", "(", "0", ")", " ", "a", "s", " ", "u", "s", "i", "z", "e", ";", " ", "l", "e", "t", " ", "(", "_", "_", "t", "r", "u", "s", "t", "_", "f", "r", "o", "m", ",", " ", "_", "_", "t", "r", "u", "s", "t", "_", "t", "o", ")", " ", "=", " ", "i", "f", " ", "_", "_", "t", "r", "u", "s", "t", "_", "s", "t", "a", "r", "t", " ", "<", "=", " ", "_", "_", "t", "r", "u", "s", "t", "_", "e", "n", "d", " ", "{", " ", "(", "_", "_", "t", "r", "u", "s", "t", "_", "s", "t", "a", "r", "t", ",", " ", "_", "_", "t", "r", "u", "s", "t", "_", "e", "n", "d", ")", " ", "}", " ", "e", "l", "s", "e", " ", "{", " ", "(", "_", "_", "t", "r", "u", "s", "t", "_", "e", "n", "d", ",", " ", "_", "_", "t", "r", "u", "s", "t", "_", "s", "t", "a", "r", "t", ")", " ", "}", ";", " ", "_", "_", "t", "r", "u", "s", "t", "_", "c", "h", "a", "r", "s", "[", "_", "_", "t", "r", "u", "s", "t", "_", "f", "r", "o", "m", ".", "m", "i", "n", "(", "_", "_", "t", "r", "u", "s", "t", "_", "l", "e", "n", ")", ".", ".", "_", "_", "t", "r", "u", "s", "t", "_", "t", "o", ".", "m", "i", "n", "(", "_", "_", "t", "r", "u", "s", "t", "_", "l", "e", "n", ")", "]", ".", "i", "t", "e", "r", "(", ")", ".", "c", "o", "l", "l", "e", "c", "t", ":", ":", "<", "S", "t", "r", "i", "n", "g", ">", "(", ")", " ", "}">>)
    ELSE IF prop = <<"s", "u", "b", "s", "t", "r">> /\ Len(arg_strs) = 1 THEN
        SomeText(<<"{", " ", "l", "e", "t", " ", "_", "_", "t", "r", "u", "s", "t", "_", "c", "h", "a", "r", "s", ":", " ", "V", "e", "c", "<", "c", "h", "a", "r", ">", " ", "=", " ">>
                 \o string_obj
                 \o <<".", "c", "h", "a", "r", "s", "(", ")", ".", "c", "o", "l", "l", "e", "c", "t", "(", ")", ";", " ", "l", "e", "t", " ", "_", "_", "t", "r", "u", "s", "t", "_", "l", "e", "n", " ", "=", " ", "_", "_", "t", "r", "u", "s", "t", "_", "c", "h", "a", "r", "s", ".", "l", "e", "n", "(", ")", " ", "a", "s", " ", "i", "s", "i", "z", "e", ";", " ", "l", "e", "t", " ", "_", "_", "t", "r", "u", "s", "t", "_", "s", "t", "a", "r", "t", " ", "=", " ", "(">>
                 \o arg_strs[1]
                 \o <<")", " ", "a", "s", " ", "i", "s", "i", "z", "e", ";", " ", "l", "e", "t", " ", "_", "_", "t", "r", "u", "s", "t", "_", "f", "r", "o", "m", " ", "=", " ", "i", "f", " ", "_", "_", "t", "r", "u", "s", "t", "_", "s", "t", "a", "r", "t", " ", "<", " ", "0", " ", "{", " ", "(", "_", "_", "t", "r", "u", "s", "t", "_", "l", "e", "n", " ", "+", " ", "_", "_", "t", "r", "u", "s", "t", "_", "s", "t", "a", "r", "t", ")", ".", "m", "a", "x", "(", "0", ")", " ", "}", " ", "e", "l", "s", "e", " ", "{", " ", "_", "_", "t", "r", "u", "s", "t", "_", "s", "t", "a", "r", "t", ".", "m", "i", "n", "(", "_", "_", "t", "r", "u", "s", "t", "_", "l", "e", "n", ")", " ", "}", " ", "a", "s", " ", "u", "s", "i", "z", "e", ";", " ", "_", "_", "t", "r", "u", "s", "t", "_", "c", "h", "a", "r", "s", "[", "_", "_", "t", "r", "u", "s", "t", "_", "f", "r", "o", "m", ".", ".", "]", ".", "i", "t", "e", "r", "(", ")", ".", "c", "o", "l", "l", "e", "c", "t", ":", ":", "<", "S", "t", "r", "i", "n", "g", ">", "(", ")", " ", "}">>)
    ELSE IF prop = <<"s", "u", "b", "s", "t", "r">> /\ Len(arg_strs) = 2 THEN
        SomeText(<<"{", " ", "l", "e", "t", " ", "_", "_", "t", "r", "u", "s", "t", "_", "c", "h", "a", "r", "s", ":", " ", "V", "e", "c", "<", "c", "h", "a", "r", ">", " ", "=", " ">>
                 \o string_obj
                 \o <<".", "c", "h", "a", "r", "s", "(", ")", ".", "c", "o", "l", "l", "e", "c", "t", "(", ")", ";", " ", "l", "e", "t", " ", "_", "_", "t", "r", "u", "s", "t", "_", "l", "e", "n", " ", "=", " ", "_", "_", "t", "r", "u", "s", "t", "_", "c", "h", "a", "r", "s", ".", "l", "e", "n", "(", ")", " ", "a", "s", " ", "i", "s", "i", "z", "e", ";", " ", "l", "e", "t", " ", "_", "_", "t", "r", "u", "s", "t", "_", "s", "t", "a", "r", "t", " ", "=", " ", "(">>
                 \o arg_strs[1]
                 \o <<")", " ", "a", "s", " ", "i", "s", "i", "z", "e", ";", " ", "l", "e", "t", " ", "_", "_", "t", "r", "u", "s", "t", "_", "c", "o", "u", "n", "t", " ", "=", " ", "(">>
                 \o arg_strs[2]
                 \o <<")", ".", "m", "a", "x", "(", "0", ")", " ", "a", "s", " ", "u", "s", "i", "z", "e", ";", " ", "l", "e", "t", " ", "_", "_", "t", "r", "u", "s", "t", "_", "f", "r", "o", "m", " ", "=", " ", "i", "f", " ", "_", "_", "t", "r", "u", "s", "t", "_", "s", "t", "a", "r", "t", " ", "<", " ", "0", " ", "{", " ", "(", "_", "_", "t", "r", "u", "s", "t", "_", "l", "e", "n", " ", "+", " ", "_", "_", "t", "r", "u", "s", "t", "_", "s", "t", "a", "r", "t", ")", ".", "m", "a", "x", "(", "0", ")", " ", "}", " ", "e", "l", "s", "e", " ", "{", " ", "_", "_", "t", "r", "u", "s", "t", "_", "s", "t", "a", "r", "t", ".", "m", "i", "n", "(", "_", "_", "t", "r", "u", "s", "t", "_", "l", "e", "n", ")", " ", "}", " ", "a", "s", " ", "u", "s", "i", "z", "e", ";", " ", "l", "e", "t", " ", "_", "_", "t", "r", "u", "s", "t", "_", "t", "o", " ", "=", " ", "(", "_", "_", "t", "r", "u", "s", "t", "_", "f", "r", "o", "m", " ", "+", " ", "_", "_", "t", "r", "u", "s", "t", "_", "c", "o", "u", "n", "t", ")", ".", "m", "i", "n", "(", "_", "_", "t", "r", "u", "s", "t", "_", "l", "e", "n", " ", "a", "s", " ", "u", "s", "i", "z", "e", ")", ";", " ", "_", "_", "t", "r", "u", "s", "t", "_", "c", "h", "a", "r", "s", "[", "_", "_", "t", "r", "u", "s", "t", "_", "f", "r", "o", "m", ".", ".", "_", "_", "t", "r", "u", "s", "t", "_", "t", "o", "]", ".", "i", "t", "e", "r", "(", ")", ".", "c", "o", "l", "l", "e", "c", "t", ":", ":", "<", "S", "t", "r", "i", "n", "g", ">", "(", ")", " ", "}">>)
    ELSE IF prop = <<"c", "o", "n", "c", "a", "t">> THEN
        SomeText(<<"f", "o", "r", "m", "a", "t", "!", "(", "\"">> \o join([k \in 1..(Len(arg_strs) + 1) |-> <<"{", "}">>], <<>>) \o <<"\"", ",", " ">>
                 \o join(<<<<"(">> \o string_obj \o <<")", ".", "t", "o", "_", "s", "t", "r", "i", "n", "g", "(", ")">>>> \o arg_strs, <<",", " ">>) \o <<")">>)
    ELSE NoText

\* transpile_member_call, the match on the array methods
array_methods(obj, prop, arg_strs) ==
    IF prop = <<"p", "u", "s", "h">> THEN
        SomeText(obj
                 \o <<".", "p", "u", "s", "h", "(">>
                 \o join(arg_strs, <<",", " ">>)
                 \o <<")">>)
    ELSE IF prop = <<"p", "o", "p">> THEN
        SomeText(obj
                 \o <<".", "p", "o", "p", "(", ")">>)
    ELSE IF prop = <<"l", "e", "n">> THEN
        SomeText(obj
                 \o <<".", "l", "e", "n", "(", ")">>)
    ELSE IF prop = <<"m", "a", "p">> THEN
        SomeText(obj
                 \o <<".", "i", "t", "e", "r", "(", ")", ".", "m", "a", "p", "(">>
                 \o join(arg_strs, <<",", " ">>)
                 \o <<")", ".", "c", "o", "l", "l", "e", "c", "t", ":", ":", "<", "V", "e", "c", "<", "_", ">", ">", "(", ")">>)
    ELSE IF prop = <<"f", "i", "l", "t", "e", "r">> THEN
        SomeText(obj
                 \o <<".", "i", "t", "e", "r", "(", ")", ".", "f", "i", "l", "t", "e", "r", "(">>
                 \o join(arg_strs, <<",", " ">>)
                 \o <<")", ".", "c", "o", "l", "l", "e", "c", "t", ":", ":", "<", "V", "e", "c", "<", "_", ">", ">", "(", ")">>)
    ELSE IF prop = <<"f", "o", "r", "E", "a", "c", "h">> THEN
        SomeText(obj
                 \o <<".", "i", "t", "e", "r", "(", ")", ".", "f", "o", "r", "_", "e", "a", "c", "h", "(">>
                 \o join(arg_strs, <<",", " ">>)
                 \o <<")">>)
    ELSE IF prop = <<"i", "n", "c", "l", "u", "d", "e", "s">> THEN
        SomeText(obj
                 \o <<".", "c", "o", "n", "t", "a", "i", "n", "s", "(", "&">>
                 \o join(arg_strs, <<",", " ">>)
                 \o <<")">>)
    ELSE IF prop = <<"j", "o", "i", "n">> THEN
        SomeText(obj
                 \o <<".", "j", "o", "i", "n", "(">>
                 \o join(arg_strs, <<",", " ">>)
                 \o <<")">>)
    ELSE IF prop = <<"r", "e", "v", "e", "r", "s", "e">> THEN
        SomeText(<<"{", " ">>
                 \o obj
                 \o <<".", "r", "e", "v", "e", "r", "s", "e", "(", ")", ";", " ">>
                 \o obj
                 \o <<" ", "}">>)
    ELSE IF prop = <<"i", "n", "d", "e", "x", "O", "f">> THEN
        SomeText(obj
                 \o <<".", "i", "t", "e", "r", "(", ")", ".", "p", "o", "s", "i", "t", "i", "o", "n", "(", "|", "r", "|", " ", "r", " ", "=", "=", " ", "&">>
                 \o join(arg_strs, <<",", " ">>)
                 \o <<")", ".", "m", "a", "p", "(", "|", "i", "|", " ", "i", " ", "a", "s", " ", "i", "3", "2", ")", ".", "u", "n", "w", "r", "a", "p", "_", "o", "r", "(", "-", "1", ")">>)
    ELSE NoText

\* stdlib::time::map_duration_constructor
map_duration_constructor(method, arg) ==
    IF method = <<"m", "i", "l", "l", "i", "s">> THEN SomeText(<<"D", "u", "r", "a", "t", "i", "o", "n", ":", ":", "f", "r", "o", "m", "_", "m", "i", "l", "l", "i", "s", "(", "(">> \o arg \o <<")", " ", "a", "s", " ", "u", "6", "4", ")">>)
    ELSE IF method \in {<<"s", "e", "c", "o", "n", "d", "s">>, <<"s", "e", "c", "s">>}
    THEN SomeText(<<"D", "u", "r", "a", "t", "i", "o", "n", ":", ":", "f", "r", "o", "m", "_", "s", "e", "c", "s", "(", "(">> \o arg \o <<")", " ", "a", "s", " ", "u", "6", "4", ")">>)
    ELSE IF method = <<"m", "i", "n", "u", "t", "e", "s">>
    THEN SomeText(<<"D", "u", "r", "a", "t", "i", "o", "n", ":", ":", "f", "r", "o", "m", "_", "s", "e", "c", "s", "(", "(", "(">> \o arg \o <<")", " ", "a", "s", " ", "u", "6", "4", ")", " ", "*", " ", "6", "0", ")">>)
    ELSE IF method = <<"n", "a", "n", "o", "s">> THEN SomeText(<<"D", "u", "r", "a", "t", "i", "o", "n", ":", ":", "f", "r", "o", "m", "_", "n", "a", "n", "o", "s", "(", "(">> \o arg \o <<")", " ", "a", "s", " ", "u", "6", "4", ")">>)
    ELSE IF method = <<"m", "i", "c", "r", "o", "s">> THEN SomeText(<<"D", "u", "r", "a", "t", "i", "o", "n", ":", ":", "f", "r", "o", "m", "_", "m", "i", "c", "r", "o", "s", "(", "(">> \o arg \o <<")", " ", "a", "s", " ", "u", "6", "4", ")">>)
    ELSE NoText

\* stdlib::time::map_instance_method
map_instance_method(method) ==
    IF method = <<"a", "s", "M", "i", "l", "l", "i", "s">> THEN SomeText(<<"a", "s", "_", "m", "i", "l", "l", "i", "s">>)
    ELSE IF method \in {<<"a", "s", "S", "e", "c", "o", "n", "d", "s">>, <<"a", "s", "S", "e", "c", "s">>} THEN SomeText(<<"a", "s", "_", "s", "e", "c", "s">>)
    ELSE IF method = <<"a", "s", "N", "a", "n", "o", "s">> THEN SomeText(<<"a", "s", "_", "n", "a", "n", "o", "s">>)
    ELSE IF method = <<"a", "s", "M", "i", "c", "r", "o", "s">> THEN SomeText(<<"a", "s", "_", "m", "i", "c", "r", "o", "s">>)
    ELSE IF method = <<"a", "s", "S", "e", "c", "s", "F", "l", "o", "a", "t">> THEN SomeText(<<"a", "s", "_", "s", "e", "c", "s", "_", "f", "6", "4">>)
    ELSE NoText

\* transpile_member_call, the end: log_base and the separator
call_with_separator(obj_expr, obj, prop, arg_strs, member_type) ==
    LET module_alias_obj == member_type.some /\ is_module_alias_binding(member_type.ty)
        separator ==
            IF module_alias_obj THEN <<":", ":">>
            ELSE IF obj_expr.e = "ident" /\ obj_expr.name # <<>> /\ is_uppercase(obj_expr.name[1])
            THEN <<":", ":">>
            ELSE <<".">>
    IN IF module_alias_obj /\ prop = <<"l", "o", "g">> /\ Len(arg_strs) = 2
       THEN obj \o <<":", ":", "l", "o", "g", "_", "b", "a", "s", "e", "(">> \o arg_strs[1] \o <<",", " ">> \o arg_strs[2] \o <<")">>
       ELSE obj \o separator \o prop \o <<"(">> \o join(arg_strs, <<",", " ">>) \o <<")">>

\* transpile_member_call, after the receiver and the arguments are lowered
member_call(obj_expr, obj, prop, arg_strs, member_type) ==
    LET string_obj ==
            IF member_type.some /\ member_type.ty = <<"R", "c", "<", "R", "e", "f", "C", "e", "l", "l", "<", "S", "t", "r", "i", "n", "g", ">", ">">>
            THEN obj \o <<".", "b", "o", "r", "r", "o", "w", "(", ")">>
            ELSE IF member_type.some /\ member_type.ty = <<"A", "r", "c", "<", "M", "u", "t", "e", "x", "<", "S", "t", "r", "i", "n", "g", ">", ">">>
            THEN obj \o <<".", "l", "o", "c", "k", "(", ")", ".", "u", "n", "w", "r", "a", "p", "(", ")">>
            ELSE obj
        is_string ==
            \/ obj_expr.e = "str"
            \/ member_type.some /\ member_type.ty \in {<<"S", "t", "r", "i", "n", "g">>, <<"R", "c", "<", "R", "e", "f", "C", "e", "l", "l", "<", "S", "t", "r", "i", "n", "g", ">", ">">>,
                                                       <<"A", "r", "c", "<", "M", "u", "t", "e", "x", "<", "S", "t", "r", "i", "n", "g", ">", ">">>}
    IN
    IF obj = <<"T", "h", "r", "e", "a", "d">> /\ prop = <<"r", "u", "n">>
    THEN <<"s", "t", "d", ":", ":", "t", "h", "r", "e", "a", "d", ":", ":", "s", "p", "a", "w", "n", "(">> \o join(arg_strs, <<",", " ">>) \o <<")">>
    ELSE IF obj = <<"c", "o", "n", "s", "o", "l", "e">> /\ prop = <<"w", "r", "i", "t", "e">>
    THEN <<"p", "r", "i", "n", "t", "l", "n", "!", "(", "\"", "{", "}", "\"", ",", " ">> \o join(arg_strs, <<",", " ">>) \o <<")">>
    ELSE IF map_methods(obj, prop, arg_strs, member_type).some
    THEN map_methods(obj, prop, arg_strs, member_type).val
    ELSE IF string_methods(string_obj, is_string, prop, arg_strs).some
    THEN string_methods(string_obj, is_string, prop, arg_strs).val
    ELSE IF array_methods(obj, prop, arg_strs).some
    THEN array_methods(obj, prop, arg_strs).val
    ELSE IF obj = <<"D", "u", "r", "a", "t", "i", "o", "n">> /\ Len(arg_strs) = 1
            /\ map_duration_constructor(prop, arg_strs[1]).some
    THEN map_duration_constructor(prop, arg_strs[1]).val
    ELSE IF map_instance_method(prop).some
    THEN obj \o <<".">> \o map_instance_method(prop).val \o <<"(", ")">>
    ELSE call_with_separator(obj_expr, obj, prop, arg_strs, member_type)

(***************************************************************************)
(* transpiler/expressions.rs, on the expressions of the model:             *)
(*   [e |-> "ident", name]      [e |-> "this"]                             *)
(*   [e |-> "num", text]        [e |-> "str", value]                       *)
(*   [e |-> "bin", op, left, right]          (op is the Rust operator)     *)
(*   [e |-> "member", obj, computed, prop, index]                          *)
(*   [e |-> "assign", target, right], target = [t |-> "member", obj,       *)
(*        computed, prop] | [t |-> "ident", name]                          *)
(*   [e |-> "call", callee, args]   callee a member or an ident; a call of *)
(*        an ident carries no argument (struct constructors and casts,     *)
(*        which take exactly one, are outside the model)                   *)
(*   [e |-> "await", arg]           [e |-> "paren", expr]                  *)
(*   [e |-> "bool", text]           [e |-> "unary", op, arg] (no arm of    *)
(*        transpile_expression reads a unary expression)                   *)
(***************************************************************************)

\* ident_name(expr).and_then(|n| scope.get(&n))
scope_get(expr, scope) ==
    IF expr.e = "ident" /\ expr.name \in DOMAIN scope
    THEN [some |-> TRUE, ty |-> scope[expr.name]]
    ELSE [some |-> FALSE, ty |-> <<>>]

\* transpile_member_access, the `.length` block
member_length(obj, obj_str, scope) ==
    LET b == scope_get(obj, scope)
    IN
    IF b.some /\ is_pointer(b.ty) THEN
        IF b.ty = <<"R", "c", "<", "R", "e", "f", "C", "e", "l", "l", "<", "S", "t", "r", "i", "n", "g", ">", ">">> THEN obj_str \o <<".", "b", "o", "r", "r", "o", "w", "(", ")", ".", "c", "h", "a", "r", "s", "(", ")", ".", "c", "o", "u", "n", "t", "(", ")", " ", "a", "s", " ", "i", "3", "2">>
        ELSE obj_str \o <<".", "b", "o", "r", "r", "o", "w", "(", ")", ".", "l", "e", "n", "(", ")">>
    ELSE IF b.some /\ is_threaded(b.ty) THEN
        IF b.ty = <<"A", "r", "c", "<", "M", "u", "t", "e", "x", "<", "S", "t", "r", "i", "n", "g", ">", ">">>
        THEN obj_str \o <<".", "l", "o", "c", "k", "(", ")", ".", "u", "n", "w", "r", "a", "p", "(", ")", ".", "c", "h", "a", "r", "s", "(", ")", ".", "c", "o", "u", "n", "t", "(", ")", " ", "a", "s", " ", "i", "3", "2">>
        ELSE obj_str \o <<".", "l", "o", "c", "k", "(", ")", ".", "u", "n", "w", "r", "a", "p", "(", ")", ".", "l", "e", "n", "(", ")">>
    ELSE IF b.some /\ b.ty = <<"S", "t", "r", "i", "n", "g">> THEN obj_str \o <<".", "c", "h", "a", "r", "s", "(", ")", ".", "c", "o", "u", "n", "t", "(", ")", " ", "a", "s", " ", "i", "3", "2">>
    ELSE IF obj.e = "str" THEN obj_str \o <<".", "c", "h", "a", "r", "s", "(", ")", ".", "c", "o", "u", "n", "t", "(", ")", " ", "a", "s", " ", "i", "3", "2">>
    ELSE obj_str \o <<".", "l", "e", "n", "(", ")">>

\* transpile_member_access, after the receiver and the index are lowered
member_access(obj, obj_str, computed, idx, prop, scope) ==
    LET b == scope_get(obj, scope)
    IN
    IF computed THEN obj_str \o <<"[">> \o idx \o <<" ", "a", "s", " ", "u", "s", "i", "z", "e", "]">>
    ELSE IF b.some /\ is_module_alias_binding(b.ty) THEN obj_str \o <<":", ":">> \o prop
    ELSE IF prop = <<"l", "e", "n", "g", "t", "h">> THEN member_length(obj, obj_str, scope)
    ELSE IF b.some /\ is_pointer(b.ty) THEN obj_str \o <<".", "b", "o", "r", "r", "o", "w", "(", ")", ".">> \o prop
    ELSE IF b.some /\ is_threaded(b.ty) THEN obj_str \o <<".", "l", "o", "c", "k", "(", ")", ".", "u", "n", "w", "r", "a", "p", "(", ")", ".">> \o prop
    ELSE obj_str \o <<".">> \o prop

\* transpile_assign, the member target, after receiver and value are lowered
assign_member(obj, obj_str, computed, ident_prop, value, scope) ==
    LET b == scope_get(obj, scope)
        prop == IF computed THEN <<"u", "n", "k", "n", "o", "w", "n">> ELSE ident_prop
    IN
    IF b.some /\ is_pointer(b.ty)
    THEN obj_str \o <<".", "b", "o", "r", "r", "o", "w", "_", "m", "u", "t", "(", ")", ".">> \o prop \o <<" ", "=", " ">> \o value
    ELSE IF b.some /\ is_threaded(b.ty)
    THEN obj_str \o <<".", "l", "o", "c", "k", "(", ")", ".", "u", "n", "w", "r", "a", "p", "(", ")", ".">> \o prop \o <<" ", "=", " ">> \o value
    ELSE obj_str \o <<".">> \o prop \o <<" ", "=", " ">> \o value

RECURSIVE transpile_expression(_, _)
transpile_member_access(member, scope) ==
    member_access(member.obj, transpile_expression(member.obj, scope), member.computed,
                  IF member.computed THEN transpile_expression(member.index, scope) ELSE <<>>,
                  member.prop, scope)

\* transpile_assign reads the target and the right side; the operator of
\* the assignment (assign.op) and the index of a computed target are not read
transpile_assign(assign, scope) ==
    IF assign.target.t = "member"
    THEN assign_member(assign.target.obj, transpile_expression(assign.target.obj, scope),
                       assign.target.computed, assign.target.prop,
                       transpile_expression(assign.right, scope), scope)
    ELSE assign.target.name \o <<" ", "=", " ">> \o transpile_expression(assign.right, scope)

\* the arguments of a call, lowered
call_args(args, scope) == [k \in 1..Len(args) |-> transpile_expression(args[k], scope)]

transpile_member_call(member, args, scope) ==
    member_call(member.obj, transpile_expression(member.obj, scope),
                IF member.computed THEN <<"u", "n", "k", "n", "o", "w", "n">> ELSE member.prop,
                call_args(args, scope), scope_get(member.obj, scope))

transpile_call_expression(call, scope) ==
    IF call.callee.e = "member" THEN transpile_member_call(call.callee, call.args, scope)
    ELSE IF call.callee.e = "ident" THEN
        IF call.callee.name = <<"l", "o", "g">> /\ Len(call.args) = 2
        THEN <<"l", "o", "g", "_", "b", "a", "s", "e", "(">> \o call_args(call.args, scope)[1] \o <<",", " ">>
             \o call_args(call.args, scope)[2] \o <<")">>
        ELSE call.callee.name \o <<"(">> \o join(call_args(call.args, scope), <<",", " ">>) \o <<")">>
    ELSE <<"u", "n", "k", "n", "o", "w", "n", "_", "c", "a", "l", "l">>

transpile_expression(expr, scope) ==
    IF expr.e = "bin"
    THEN transpile_expression(expr.left, scope) \o <<" ">> \o expr.op \o <<" ">>
         \o transpile_expression(expr.right, scope)
    ELSE IF expr.e = "ident" THEN expr.name
    ELSE IF expr.e = "this" THEN <<"s", "e", "l", "f">>
    ELSE IF expr.e = "num" THEN expr.text
    ELSE IF expr.e = "str" THEN <<"\"">> \o expr.value \o <<"\"", ".", "t", "o", "_", "s", "t", "r", "i", "n", "g", "(", ")">>
    ELSE IF expr.e = "bool" THEN expr.text
    ELSE IF expr.e = "call" THEN transpile_call_expression(expr, scope)
    ELSE IF expr.e = "member" THEN transpile_member_access(expr, scope)
    ELSE IF expr.e = "assign" THEN transpile_assign(expr, scope)
    ELSE IF expr.e = "await"
    THEN <<"(">> \o transpile_expression(expr.arg, scope) \o <<")", ".", "j", "o", "i", "n", "(", ")", ".", "u", "n", "w", "r", "a", "p", "(", ")">>
    ELSE IF expr.e = "paren" THEN transpile_expression(expr.expr, scope)
    ELSE <<"u", "n", "k", "n", "o", "w", "n", "_", "e", "x", "p", "r">>

(***************************************************************************)
(* transpiler/statements.rs, on the statements of the model:               *)
(*   [s |-> "return", has_arg, arg]      [s |-> "expr", expr]              *)
(*   [s |-> "block", stmts]              [s |-> "if", test, cons, has_alt, *)
(*   [s |-> "while", test, body]              alt]                         *)
(*   [s |-> "for", init, test, update, body]   (init, test and update are  *)
(*        [some, ...]; init holds a var statement)                         *)
(*   [s |-> "forof", head, right, body], head = [name, type]               *)
(*   [s |-> "try", block, has_handler, param, handler, has_finalizer,      *)
(*        finalizer], param = [some, name]                                 *)
(*   [s |-> "var", var_kind, decls], a declarator being                    *)
(*        [name, type, has_init, init]                                     *)
(*   [s |-> "break"]   [s |-> "continue"]                                  *)
(*   [s |-> "throw", arg], arg an expression or [e |-> "new", callee,      *)
(*        args]                                                            *)
(* Lowering a statement gives its text and the scope it leaves:            *)
(* [text, scope].                                                          *)
(***************************************************************************)

LoweredStmt(text, scope) == [text |-> text, scope |-> scope]

\* indent_block
indent_block(block, indent) ==
    join([k \in 1..Len(lines(block)) |-> indent \o lines(block)[k]], <<"\n">>)

\* one declarator of a `let`/`var`/`const` statement: [part, scope], part
\* being [some, text]
var_declarator(decl, binding, scope) ==
    LET has_ann == decl.type # NoType
        type_ann == IF has_ann THEN transpile_type_annotation(decl.type) ELSE <<>>
        declared_as_pointer == has_ann /\ is_pointer(type_ann)
        declared_as_threaded == has_ann /\ is_threaded(type_ann)
        init_ty == IF decl.has_init /\ decl.init.e = "ident" /\ decl.init.name \in DOMAIN scope
                   THEN scope[decl.init.name] ELSE <<>>
        init_shared == decl.has_init /\ decl.init.e = "ident"
                       /\ (is_pointer(init_ty) \/ is_threaded(init_ty))
        expr_str == transpile_expression(decl.init, scope)
        val == IF declared_as_pointer THEN <<"R", "c", ":", ":", "n", "e", "w", "(", "R", "e", "f", "C", "e", "l", "l", ":", ":", "n", "e", "w", "(">> \o expr_str \o <<")", ")">>
               ELSE IF declared_as_threaded THEN <<"A", "r", "c", ":", ":", "n", "e", "w", "(", "M", "u", "t", "e", "x", ":", ":", "n", "e", "w", "(">> \o expr_str \o <<")", ")">>
               ELSE IF init_shared
               THEN (IF is_threaded(init_ty) THEN <<"A", "r", "c", ":", ":", "c", "l", "o", "n", "e">> ELSE <<"R", "c", ":", ":", "c", "l", "o", "n", "e">>)
                    \o <<"(", "&">> \o decl.init.name \o <<")">>
               ELSE expr_str
        after == IF declared_as_pointer \/ declared_as_threaded
                 THEN scope_insert(scope, decl.name, type_ann)
                 ELSE IF init_shared THEN scope_insert(scope, decl.name, init_ty)
                 ELSE IF has_ann THEN scope_insert(scope, decl.name, type_ann)
                 ELSE scope
    IN IF ~decl.has_init THEN [part |-> NoText, scope |-> scope]
       ELSE [part |-> SomeText(IF has_ann
                               THEN binding \o <<" ">> \o decl.name \o <<":", " ">> \o type_ann
                                    \o <<" ", "=", " ">> \o val \o <<";">>
                               ELSE binding \o <<" ">> \o decl.name \o <<" ", "=", " ">> \o val \o <<";">>),
             scope |-> after]

\* the Decl::Var arm: the declarators in turn, from acc = [parts, scope]
RECURSIVE var_declarators(_, _, _)
var_declarators(decls, binding, acc) ==
    IF decls = <<>> THEN acc
    ELSE Bind(var_declarator(Head(decls), binding, acc.scope), LAMBDA r :
             var_declarators(Tail(decls), binding,
                             [parts |-> IF r.part.some THEN Append(acc.parts, r.part.val)
                                        ELSE acc.parts,
                              scope |-> r.scope]))

lower_var(var_decl, scope) ==
    Bind(var_declarators(var_decl.decls,
                         IF var_decl.var_kind = "var" THEN <<"l", "e", "t", " ", "m", "u", "t">> ELSE <<"l", "e", "t">>,
                         [parts |-> <<>>, scope |-> scope]), LAMBDA r :
        LoweredStmt(join(r.parts, <<"\n">>), r.scope))

\* transpile_for_head_binding: the binding name and the scope
for_head_scope(head, scope) ==
    IF head.type # NoType
    THEN scope_insert(scope, head.name, transpile_type_annotation(head.type))
    ELSE scope

\* the text of transpile_try_stmt, from the lowered bodies
try_text(try_body, has_handler, err_name, catch_body, has_finalizer, final_body) ==
    <<"{", "\n">>
    \o <<" ", " ", " ", " ", "l", "e", "t", " ", "_", "_", "t", "r", "u", "s", "t", "_", "t", "r", "y", "_", "r", "e", "s", "u", "l", "t", ":", " ", "R", "e", "s", "u", "l", "t", "<", "(", ")", ",", " ", "S", "t", "r", "i", "n", "g", ">", " ", "=", " ", "(", "|", "|", " ", "-", ">", " ", "R", "e", "s", "u", "l", "t", "<", "(", ")", ",", " ", "S", "t", "r", "i", "n", "g", ">", " ", "{", "\n">>
    \o try_body \o (IF try_body # <<>> THEN <<"\n">> ELSE <<>>)
    \o <<" ", " ", " ", " ", " ", " ", " ", " ", " ", " ", " ", " ", "O", "k", "(", "(", ")", ")", "\n">>
    \o <<" ", " ", " ", " ", "}", ")", "(", ")", ";", "\n">>
    \o (IF has_handler
        THEN <<" ", " ", " ", " ", "i", "f", " ", "l", "e", "t", " ", "E", "r", "r", "(">> \o err_name \o <<")", " ", "=", " ", "_", "_", "t", "r", "u", "s", "t", "_", "t", "r", "y", "_", "r", "e", "s", "u", "l", "t", " ", "{", "\n">>
             \o catch_body \o (IF catch_body # <<>> THEN <<"\n">> ELSE <<>>)
             \o <<" ", " ", " ", " ", "}", "\n">>
        ELSE <<" ", " ", " ", " ", "l", "e", "t", " ", "_", " ", "=", " ", "_", "_", "t", "r", "u", "s", "t", "_", "t", "r", "y", "_", "r", "e", "s", "u", "l", "t", ";", "\n">>)
    \o (IF has_finalizer THEN final_body \o (IF final_body # <<>> THEN <<"\n">> ELSE <<>>)
        ELSE <<>>)
    \o <<"}">>

\* the name that a catch clause binds
catch_name(try_stmt) == IF try_stmt.param.some THEN try_stmt.param.name ELSE <<"_", "e", "r", "r">>

\* let mut catch_scope = scope.clone(); catch_scope.insert(catch_name, "String")
catch_scope(try_stmt, scope) == scope_insert(scope, catch_name(try_stmt), <<"S", "t", "r", "i", "n", "g">>)

RECURSIVE lower_statement(_, _)
RECURSIVE lower_block(_, _, _, _)

\* transpile_block_stmt, from the statements left and acc, the lines so far
lower_block(stmts, indent, scope, acc) ==
    IF stmts = <<>> THEN LoweredStmt(join(acc, <<"\n">>), scope)
    ELSE Bind(lower_statement(Head(stmts), scope), LAMBDA r :
             lower_block(Tail(stmts), indent, r.scope, Append(acc, indent \o r.text)))

lower_if(stmt, scope) ==
    Bind(lower_statement(stmt.cons, scope), LAMBDA c :
        IF stmt.has_alt
        THEN Bind(lower_statement(stmt.alt, c.scope), LAMBDA a :
                 LoweredStmt(<<"i", "f", " ">> \o transpile_expression(stmt.test, scope) \o <<" ", "{", "\n">> \o c.text
                         \o <<"\n", "}", " ", "e", "l", "s", "e", " ", "{", "\n">> \o a.text \o <<"\n", "}">>, a.scope))
        ELSE LoweredStmt(<<"i", "f", " ">> \o transpile_expression(stmt.test, scope) \o <<" ", "{", "\n">> \o c.text
                     \o <<"\n", "}">>, c.scope))

lower_while(stmt, scope) ==
    Bind(lower_statement(stmt.body, scope), LAMBDA b :
        LoweredStmt(<<"w", "h", "i", "l", "e", " ">> \o transpile_expression(stmt.test, scope) \o <<" ", "{", "\n">>
                \o indent_block(b.text, <<" ", " ", " ", " ">>) \o <<"\n", "}">>, b.scope))

lower_for(stmt, scope) ==
    Bind(IF stmt.init.some THEN lower_var(stmt.init.decl, scope) ELSE LoweredStmt(<<>>, scope),
         LAMBDA i :
    Bind(lower_statement(stmt.body, i.scope), LAMBDA b :
        LET cond == IF stmt.test.some THEN transpile_expression(stmt.test.expr, i.scope)
                    ELSE <<"t", "r", "u", "e">>
            body0 == indent_block(b.text, <<" ", " ", " ", " ">>)
            while_body ==
                IF stmt.update.some
                THEN body0 \o (IF body0 # <<>> THEN <<"\n">> ELSE <<>>) \o <<" ", " ", " ", " ">>
                     \o transpile_expression(stmt.update.expr, i.scope) \o <<";">>
                ELSE body0
            while_code == <<"w", "h", "i", "l", "e", " ">> \o cond \o <<" ", "{", "\n">> \o while_body \o <<"\n", "}">>
        IN LoweredStmt(IF i.text = <<>> THEN while_code ELSE i.text \o <<"\n">> \o while_code,
                   b.scope)))

lower_forof(stmt, scope) ==
    Bind(for_head_scope(stmt.head, scope), LAMBDA h :
    Bind(lower_statement(stmt.body, h), LAMBDA b :
        LoweredStmt(<<"f", "o", "r", " ">> \o stmt.head.name \o <<" ", "i", "n", " ", "(">> \o transpile_expression(stmt.right, h)
                \o <<")", ".", "i", "t", "e", "r", "(", ")", ".", "c", "l", "o", "n", "e", "d", "(", ")", " ", "{", "\n">> \o indent_block(b.text, <<" ", " ", " ", " ">>) \o <<"\n", "}">>,
                b.scope)))

\* transpile_try_stmt: the three bodies are lowered in clones of the scope
lower_try(stmt, scope) ==
    LoweredStmt(try_text(lower_block(stmt.block, <<" ", " ", " ", " ", " ", " ", " ", " ", " ", " ", " ", " ">>, scope, <<>>).text,
                     stmt.has_handler, catch_name(stmt),
                     IF stmt.has_handler
                     THEN lower_block(stmt.handler, <<" ", " ", " ", " ", " ", " ", " ", " ">>, catch_scope(stmt, scope),
                                      <<>>).text
                     ELSE <<>>,
                     stmt.has_finalizer,
                     IF stmt.has_finalizer
                     THEN lower_block(stmt.finalizer, <<" ", " ", " ", " ">>, scope, <<>>).text
                     ELSE <<>>),
            scope)

\* the Stmt::Throw arm: throw new Error(msg) and throw e
lower_throw(stmt, scope) ==
    LET msg == IF stmt.arg.e = "new"
               THEN IF stmt.arg.args # <<>> THEN transpile_expression(stmt.arg.args[1], scope)
                    ELSE <<"\"", "e", "r", "r", "o", "r", "\"", ".", "t", "o", "_", "s", "t", "r", "i", "n", "g", "(", ")">>
               ELSE transpile_expression(stmt.arg, scope)
    IN LoweredStmt(<<"r", "e", "t", "u", "r", "n", " ", "E", "r", "r", "(">> \o msg \o <<")", ";">>, scope)

lower_statement(stmt, scope) ==
    IF stmt.s = "return" THEN
        LoweredStmt(IF stmt.has_arg
                THEN <<"r", "e", "t", "u", "r", "n", " ">> \o transpile_expression(stmt.arg, scope) \o <<";">>
                ELSE <<"r", "e", "t", "u", "r", "n", ";">>, scope)
    ELSE IF stmt.s = "expr" THEN LoweredStmt(transpile_expression(stmt.expr, scope) \o <<";">>, scope)
    ELSE IF stmt.s = "block" THEN lower_block(stmt.stmts, <<" ", " ", " ", " ">>, scope, <<>>)
    ELSE IF stmt.s = "if" THEN lower_if(stmt, scope)
    ELSE IF stmt.s = "while" THEN lower_while(stmt, scope)
    ELSE IF stmt.s = "for" THEN lower_for(stmt, scope)
    ELSE IF stmt.s = "forof" THEN lower_forof(stmt, scope)
    ELSE IF stmt.s = "try" THEN lower_try(stmt, scope)
    ELSE IF stmt.s = "break" THEN LoweredStmt(<<"b", "r", "e", "a", "k", ";">>, scope)
    ELSE IF stmt.s = "continue" THEN LoweredStmt(<<"c", "o", "n", "t", "i", "n", "u", "e", ";">>, scope)
    ELSE IF stmt.s = "throw" THEN lower_throw(stmt, scope)
    ELSE lower_var(stmt, scope)

transpile_statement(stmt, scope) == lower_statement(stmt, scope).text

transpile_block_stmt(stmts, indent, scope) == lower_block(stmts, indent, scope, <<>>).text

\* the scope that transpile_block_stmt leaves
block_scope(stmts, scope) == lower_block(stmts, <<" ", " ", " ", " ">>, scope, <<>>).scope

\* transpile_const_value: literals, and a unary minus
RECURSIVE transpile_const_value(_, _)
transpile_const_value(init, scope) ==
    IF init.e = "str" THEN <<"\"">> \o init.value \o <<"\"">>
    ELSE IF init.e = "num" THEN init.text
    ELSE IF init.e = "bool" THEN init.text
    ELSE IF init.e = "unary" /\ init.op = <<"-">>
    THEN <<"-">> \o transpile_const_value(init.arg, scope)
    ELSE transpile_expression(init, scope)

\* transpile_global_const on a VarDecl [var_kind, decls], a declarator being
\* [name, type, has_init, init]
global_const(decl) ==
    LET val == transpile_const_value(decl.init, EmptyScope)
    IN IF decl.type = NoType
       THEN <<"c", "o", "n", "s", "t", " ">> \o decl.name \o <<":", " ", "i", "3", "2", " ", "=", " ">> \o val \o <<";">>
       ELSE IF transpile_type_annotation(decl.type) = <<"S", "t", "r", "i", "n", "g">>
       THEN <<"c", "o", "n", "s", "t", " ">> \o decl.name \o <<":", " ", "&", "'", "s", "t", "a", "t", "i", "c", " ", "s", "t", "r", " ", "=", " ">> \o val \o <<";">>
       ELSE <<"c", "o", "n", "s", "t", " ">> \o decl.name \o <<":", " ">> \o transpile_type_annotation(decl.type)
            \o <<" ", "=", " ">> \o val \o <<";">>

transpile_global_const(var_decl) ==
    IF var_decl.var_kind # "const" THEN <<>>
    ELSE LET with_init == {k \in 1..Len(var_decl.decls) : var_decl.decls[k].has_init}
         IN [n \in 1..Cardinality(with_init) |-> global_const(var_decl.decls[Kth(with_init, n)])]

(***************************************************************************)
(* transpiler/functions.rs.  A function is [name, params, ret, has_body,   *)
(* body, is_async]; a parameter is [name, type]; a class is                *)
(* [name, methods], a method being a function with is_static.              *)
(***************************************************************************)

\* base_scope: every module alias is bound to the marker
base_scope(module_aliases) ==
    [n \in {module_aliases[k] : k \in 1..Len(module_aliases)} |-> MODULE_ALIAS_MARKER]

param_type(p) == IF p.type = NoType THEN <<"i", "3", "2">> ELSE transpile_type_annotation(p.type)

\* the scope after transpile_params: scope.insert for each parameter in turn
RECURSIVE params_scope(_, _)
params_scope(params, scope) ==
    IF params = <<>> THEN scope
    ELSE params_scope(Tail(params), scope_insert(scope, Head(params).name, param_type(Head(params))))

\* the text returned by transpile_params
transpile_params(params) ==
    join([k \in 1..Len(params) |-> params[k].name \o <<":", " ">> \o param_type(params[k])], <<",", " ">>)

transpile_return_type(return_type) ==
    IF return_type = NoType THEN <<"(", ")">> ELSE transpile_type(return_type)

transpile_block(function, scope) ==
    IF function.has_body THEN transpile_block_stmt(function.body, <<" ", " ", " ", " ">>, scope) ELSE <<>>

transpile_async_block(function, scope) ==
    IF function.has_body THEN transpile_block_stmt(function.body, <<" ", " ", " ", " ", " ", " ", " ", " ">>, scope) ELSE <<>>

\* the two format! calls of transpile_function
format_function(name, params, return_type, body, is_async) ==
    IF is_async
    THEN <<"f", "n", " ">> \o name \o <<"(">> \o params \o <<")", " ", "-", ">", " ", "s", "t", "d", ":", ":", "t", "h", "r", "e", "a", "d", ":", ":", "J", "o", "i", "n", "H", "a", "n", "d", "l", "e", "<">> \o return_type
         \o <<">", " ", "{", "\n", " ", " ", " ", " ", "s", "t", "d", ":", ":", "t", "h", "r", "e", "a", "d", ":", ":", "s", "p", "a", "w", "n", "(", "m", "o", "v", "e", " ", "|", "|", " ", "{", "\n">> \o body \o <<"\n", " ", " ", " ", " ", "}", ")", "\n", "}">>
    ELSE <<"f", "n", " ">> \o name \o <<"(">> \o params \o <<")", " ", "-", ">", " ">> \o return_type
         \o <<" ", "{", "\n">> \o body \o <<"\n", "}">>

transpile_function(func, module_aliases) ==
    LET scope == params_scope(func.params, base_scope(module_aliases))
    IN format_function(func.name, transpile_params(func.params),
                       transpile_return_type(func.ret),
                       IF func.is_async THEN transpile_async_block(func, scope)
                       ELSE transpile_block(func, scope),
                       func.is_async)

RECURSIVE expr_mutates_this(_)
expr_mutates_this(expr) ==
    IF expr.e = "assign"
    THEN (expr.target.t = "member" /\ expr.target.obj.e = "this") \/ expr_mutates_this(expr.right)
    ELSE IF expr.e = "call"
    THEN (\E k \in 1..Len(expr.args) : expr_mutates_this(expr.args[k]))
         \/ expr_mutates_this(expr.callee)
    ELSE IF expr.e = "bin" THEN expr_mutates_this(expr.left) \/ expr_mutates_this(expr.right)
    ELSE IF expr.e = "paren" THEN expr_mutates_this(expr.expr)
    ELSE FALSE

RECURSIVE stmt_mutates_this(_)
stmt_mutates_this(stmt) ==
    IF stmt.s = "expr" THEN expr_mutates_this(stmt.expr)
    ELSE IF stmt.s = "block" THEN \E k \in 1..Len(stmt.stmts) : stmt_mutates_this(stmt.stmts[k])
    ELSE IF stmt.s = "if"
    THEN expr_mutates_this(stmt.test) \/ stmt_mutates_this(stmt.cons)
         \/ (stmt.has_alt /\ stmt_mutates_this(stmt.alt))
    ELSE IF stmt.s = "var"
    THEN \E k \in 1..Len(stmt.decls) : stmt.decls[k].has_init /\ expr_mutates_this(stmt.decls[k].init)
    ELSE IF stmt.s = "return" THEN stmt.has_arg /\ expr_mutates_this(stmt.arg)
    ELSE FALSE

method_needs_mut_self(function) ==
    function.has_body /\ \E k \in 1..Len(function.body) : stmt_mutates_this(function.body[k])

\* transpile_impl_method on a method that is neither static nor async
transpile_impl_method(method, module_aliases) ==
    LET scope == params_scope(method.params, base_scope(module_aliases))
        params == transpile_params(method.params)
        self_param == IF method_needs_mut_self(method) THEN <<"&", "m", "u", "t", " ", "s", "e", "l", "f">> ELSE <<"&", "s", "e", "l", "f">>
        signature_params == IF params = <<>> THEN self_param ELSE self_param \o <<",", " ">> \o params
    IN <<" ", " ", " ", " ", "f", "n", " ">> \o method.name \o <<"(">> \o signature_params \o <<")", " ", "-", ">", " ">>
       \o transpile_return_type(method.ret) \o <<" ", "{", "\n">> \o transpile_block(method, scope)
       \o <<"\n", " ", " ", " ", " ", "}">>

\* Ok(None): the class has no instance method
NoImpl == [ok |-> TRUE, err |-> "", some |-> FALSE, code |-> <<>>]

\* bail! in transpile_impl_method, returned through the ? operator (the
\* message quotes async and implements with backticks)
ImplBail == [ok |-> FALSE, err |-> "'async' methods in 'implements' are not supported yet.",
             some |-> FALSE, code |-> <<>>]

\* A static method is skipped (Ok(None)); an async method that is not static
\* fails the block.
transpile_impl_block(class_decl, module_aliases) ==
    LET inst == {k \in 1..Len(class_decl.methods) : ~class_decl.methods[k].is_static}
        methods == [n \in 1..Cardinality(inst) |->
                       transpile_impl_method(class_decl.methods[Kth(inst, n)], module_aliases)]
    IN IF \E k \in inst : class_decl.methods[k].is_async THEN ImplBail
       ELSE IF inst = {} THEN NoImpl
       ELSE [ok |-> TRUE, err |-> "", some |-> TRUE,
             code |-> <<"i", "m", "p", "l", " ">> \o class_decl.name \o <<" ", "{", "\n">> \o join(methods, <<"\n", "\n">>)
                      \o <<"\n", "}">>]

(***************************************************************************)
(* The source texts the text pipeline is run on: every concatenation of    *)
(* at most MaxFrags fragments, and a few whole programs.                   *)
(***************************************************************************)

MaxFrags == 3

Fragments ==
    { <<"s", "t", "r", "u", "c", "t", " ">>, <<"\"">>, <<"x">>, <<" ">>, <<"\n">>, <<"a", "n", "d">>, <<"w", "h", "i", "l", "e">>,
      <<"w", "h">>, <<"i", "l", "e">>, <<"/", "*">>, <<"*", "/">>, <<"/", "/">>, <<"v", "a", "l", " ">>, <<"w", "a", "i", "t", " ">>, <<"l", "o", "o", "p", "(">>,
      <<"\"", "\"">> }

Programs ==
    { <<"m", "a", "t", "c", "h", " ", "(", "x", ")", " ", "{", " ", "1", " ", "=", ">", " ", "a", ",", " ", "[", "2", ",", " ", "3", "]", " ", "=", ">", " ", "b", ",", " ", "d", "e", "f", "a", "u", "l", "t", " ", "=", ">", " ", "c", " ", "}">>,
      <<"m", "a", "t", "c", "h", " ", "(", "x", ")", " ", "{", " ", "1", " ", "=", ">", " ", "m", "a", "t", "c", "h", " ", "(", "y", ")", " ", "{", " ", "2", " ", "=", ">", " ", "a", " ", "}", " ", "}">>,
      <<"v", "a", "l", " ", "r", " ", "=", " ", "m", "a", "t", "c", "h", " ", "(", "k", ")", " ", "{", " ", "\"", "a", "\"", " ", "=", ">", " ", "1", " ", "}", ";", "\n", "v", "a", "l", " ", "s", " ", "=", " ", "m", "a", "t", "c", "h", " ", "(", "k", ")", " ", "{", " ", "d", "e", "f", "a", "u", "l", "t", " ", "=", ">", " ", "2", " ", "}", ";">>,
      <<"i", "m", "p", "l", "e", "m", "e", "n", "t", "s", " ", "P", " ", "{", "\n", " ", " ", "f", "u", "n", "c", "t", "i", "o", "n", " ", "g", "e", "t", "(", ")", ":", " ", "i", "n", "t", " ", "{", "\n", " ", " ", " ", " ", "r", "e", "t", "u", "r", "n", " ", "t", "h", "i", "s", ".", "x", ";", "\n", " ", " ", "}", "\n", "}", "\n", "f", "u", "n", "c", "t", "i", "o", "n", " ", "f", "(", ")", " ", "{", "}">>,
      <<"/", "/", " ", "a", " ", "o", "r", " ", "b", "\n", "l", "e", "t", " ", "s", " ", "=", " ", "\"", "x", " ", "a", "n", "d", " ", "y", "\"", ";", "\n", "l", "e", "t", " ", "c", " ", "=", " ", "a", " ", "a", "n", "d", " ", "b", " ", "o", "r", " ", "f", "a", "l", "s", "e", ";", "\n">>,
      <<" ", " ", "w", "a", "i", "t", " ", "h", ";", "\n", "l", "o", "o", "p", " ", "(", "i", " ", "<", " ", "3", ")", " ", "{", " ", "i", " ", "=", " ", "i", " ", "+", " ", "1", ";", " ", "}">> }

RECURSIVE Concats(_)
Concats(n) ==
    IF n = 0 THEN {<<>>}
    ELSE LET shorter == Concats(n - 1)
         IN shorter \cup {s \o f : s \in shorter, f \in Fragments}

Sources == Concats(MaxFrags) \cup Programs

(***************************************************************************)
(* Parsed modules (swc_ecma_ast::Module).  An item of a module body is a   *)
(* record with a `kind`: "import", "interface", "enum", "fn", "class",     *)
(* "var", or "other" for the items that transpile_to_rust skips.           *)
(***************************************************************************)

Specifier(k, local) == [k |-> k, local |-> local]

Import(src, specifiers) == [kind |-> "import", src |-> src, specifiers |-> specifiers]

Kw(name) == [k |-> "kw", name |-> name]

Ref(name, args) == [k |-> "ref", name |-> name, args |-> args]

Id(name) == [e |-> "ident", name |-> name]

Member(obj, prop) ==
    [e |-> "member", obj |-> obj, computed |-> FALSE, prop |-> prop, index |-> Id(<<>>)]

Call(callee, args) == [e |-> "call", callee |-> callee, args |-> args]

ExprStmt(expr) == [s |-> "expr", expr |-> expr]

Return(arg) == [s |-> "return", has_arg |-> TRUE, arg |-> arg]

Fn(name, params, ret, body) ==
    [kind |-> "fn", name |-> name, params |-> params, ret |-> ret, has_body |-> TRUE,
     body |-> body, is_async |-> FALSE, is_static |-> FALSE]

ImportItems ==
    { Import(<<"t", "r", "u", "s", "t", "y", ":", "m", "a", "t", "h">>, <<Specifier("named", <<"s", "q", "r", "t">>)>>),
      Import(<<"t", "r", "u", "s", "t", "y", ":", "m", "a", "t", "h">>, <<Specifier("default", <<"m">>)>>),
      Import(<<"t", "r", "u", "s", "t", "y", ":", "r", "a", "n", "d">>, <<Specifier("named", <<"r", "a", "n", "d", "o", "m">>)>>),
      Import(<<"t", "r", "u", "s", "t", "y", ":", "j", "s", "o", "n">>, <<Specifier("named", <<"t", "o", "J", "S", "O", "N">>)>>),
      Import(<<"t", "r", "u", "s", "t", "y", ":", "h", "t", "t", "p">>, <<Specifier("named", <<"f", "e", "t", "c", "h">>)>>),
      Import(<<"t", "r", "u", "s", "t", "y", ":", "t", "i", "m", "e">>, <<Specifier("named", <<"s", "l", "e", "e", "p">>)>>),
      Import(<<"t", "r", "u", "s", "t", "y", ":", "t", "i", "m", "e">>, <<Specifier("default", <<"t">>)>>),
      Import(<<"r", "a", "n", "d">>, <<Specifier("named", <<"R", "n", "g">>)>>),
      Import(<<"s", "e", "r", "d", "e">>, <<Specifier("named", <<"S", "e", "r", "i", "a", "l", "i", "z", "e">>), Specifier("named", <<"D", "e", "s", "e", "r", "i", "a", "l", "i", "z", "e">>)>>),
      Import(<<"s", "t", "d", "/", "c", "o", "l", "l", "e", "c", "t", "i", "o", "n", "s">>, <<Specifier("named", <<"H", "a", "s", "h", "M", "a", "p">>), Specifier("named", <<"H", "a", "s", "h", "S", "e", "t">>)>>),
      Import(<<"s", "t", "d", "/", "c", "o", "l", "l", "e", "c", "t", "i", "o", "n", "s">>, <<Specifier("named", <<"H", "a", "s", "h", "M", "a", "p">>)>>),
      Import(<<"r", "e", "g", "e", "x">>, <<Specifier("default", <<"r", "e">>)>>),
      Import(<<"r", "e", "g", "e", "x">>, <<Specifier("default", <<"r", "e">>), Specifier("named", <<"R", "e", "g", "e", "x">>)>>),
      Import(<<"s", "t", "d", "/", "f", "s">>, <<Specifier("ns", <<"f", "s">>)>>),
      Import(<<".", "/", "u", "t", "i", "l">>, <<Specifier("named", <<"h", "e", "l", "p", "e", "r">>)>>),
      Import(<<".", "/", "u", "t", "i", "l">>, <<Specifier("default", <<"u", "t", "i", "l">>)>>),
      Import(<<"s", "i", "d", "e", "_", "e", "f", "f", "e", "c", "t">>, <<>>) }

DeclItems ==
    { [kind |-> "interface", name |-> <<"P">>,
       members |-> << [name |-> <<"x">>, type |-> Ref(<<"i", "n", "t", "3", "2">>, <<>>)],
                      [name |-> <<"n", "e", "x", "t">>, type |-> Ref(<<"P">>, <<>>)] >>],
      [kind |-> "interface", name |-> <<"Q">>,
       members |-> << [name |-> <<"m">>, type |-> Ref(<<"M", "a", "p">>, <<Kw("string"), Kw("number")>>)],
                      [name |-> <<"n">>, type |-> NoType] >>],
      [kind |-> "enum", name |-> <<"C", "o", "l", "o", "r">>,
       members |-> << [name |-> <<"R", "e", "d">>, init |-> [d |-> "str", v |-> <<"r", "e", "d">>]] >>],
      [kind |-> "enum", name |-> <<"L", "e", "v", "e", "l">>,
       members |-> << [name |-> <<"L", "o", "w">>, init |-> [d |-> "num", v |-> <<"1">>]],
                      [name |-> <<"H", "i", "g", "h">>, init |-> [d |-> "none"]] >>],
      Fn(<<"g", "e", "t">>, << [name |-> <<"p">>, type |-> Ref(<<"P", "o", "i", "n", "t", "e", "r">>, <<Ref(<<"P">>, <<>>)>>)] >>,
         Kw("number"), << Return(Member(Id(<<"p">>), <<"x">>)) >>),
      Fn(<<"a", "r", "e", "a">>, << [name |-> <<"r">>, type |-> Ref(<<"f", "l", "o", "a", "t", "6", "4">>, <<>>)] >>,
         Ref(<<"f", "l", "o", "a", "t", "6", "4">>, <<>>),
         << Return([e |-> "bin", op |-> <<"*">>, left |-> Member(Id(<<"m">>), <<"P", "I">>),
                    right |-> Id(<<"r">>)]) >>),
      Fn(<<"s", "i", "z", "e">>, << [name |-> <<"s">>, type |-> Ref(<<"T", "h", "r", "e", "a", "d", "e", "d">>, <<Ref(<<"S", "e", "t">>, <<Kw("string")>>)>>)] >>,
         NoType, << Return(Member(Id(<<"s">>), <<"l", "e", "n", "g", "t", "h">>)) >>),
      [kind |-> "class", name |-> <<"P">>,
       methods |-> << [Fn(<<"b", "u", "m", "p">>, <<>>, NoType,
                          << [s |-> "expr",
                              expr |-> [e |-> "assign",
                                        target |-> [t |-> "member", obj |-> [e |-> "this"],
                                                    computed |-> FALSE, prop |-> <<"x">>],
                                        right |-> [e |-> "num", text |-> <<"1">>]]] >>)
                       EXCEPT !.kind = "method"] >>],
      [kind |-> "class", name |-> <<"Q">>,
       methods |-> << [Fn(<<"m", "a", "k", "e">>, <<>>, NoType, <<>>)
                       EXCEPT !.kind = "method", !.is_static = TRUE] >>],
      [kind |-> "class", name |-> <<"R">>,
       methods |-> << [Fn(<<"r", "u", "n">>, <<>>, NoType, <<>>)
                       EXCEPT !.kind = "method", !.is_async = TRUE] >>],
      [kind |-> "var", var_kind |-> "const",
       decls |-> << [name |-> <<"S", "C", "A", "L", "E">>, type |-> Ref(<<"i", "n", "t", "3", "2">>, <<>>), has_init |-> TRUE,
                     init |-> [e |-> "num", text |-> <<"1", "0">>]],
                    [name |-> <<"A", "P", "P">>, type |-> Kw("string"), has_init |-> TRUE,
                     init |-> [e |-> "str", value |-> <<"T", "R", "U", "S", "T">>]] >>],
      [kind |-> "var", var_kind |-> "let",
       decls |-> << [name |-> <<"c", "o", "u", "n", "t", "e", "r">>, type |-> NoType, has_init |-> TRUE,
                     init |-> [e |-> "num", text |-> <<"0">>]] >>],
      [kind |-> "other"] }

Items == ImportItems \cup DeclItems

MaxItems == 2

\* the module bodies of at most MaxItems items
Modules == UNION {[1..n -> Items] : n \in 0..MaxItems}

(***************************************************************************)
(* State.                                                                  *)
(***************************************************************************)

VARIABLES
    source,          \* the text given to compile_full
    pc,              \* the position of the running function in its code
    preprocessed,    \* the result of preprocess(source)
    reprocessed,     \* the result of preprocess on the preprocessed text
    module,          \* transpile_to_rust: the parsed module (its body)
    idx,             \* transpile_to_rust: the position of the item loop (1-based)
    use_statements,  \* transpile_to_rust: local Vec<String>
    type_decls,      \* transpile_to_rust: local Vec<String>
    impl_blocks,     \* transpile_to_rust: local Vec<String>
    global_consts,   \* transpile_to_rust: local Vec<String>
    function_code,   \* transpile_to_rust: local Vec<String>
    required_crates, \* transpile_to_rust: local Vec<String>
    module_aliases,  \* transpile_to_rust: local Vec<String>
    output,          \* the Result<TranspileOutput> returned
    func,            \* transpile_function: the FnDecl
    scope,           \* transpile_function: local Scope
    params,          \* transpile_function: local String
    return_type,     \* transpile_function: local String
    body,            \* transpile_function: local String
    func_code,       \* transpile_function: the String returned
    stderr,          \* the process's standard error stream: lines written so far
    calls,           \* the number of compile_full invocations begun
    first_output,    \* per input, the output of its first completed invocation
    gen_lines,       \* the generated statement that runs: its lines
    gen_at,          \* the line of the generated statement that runs next
    gen_log,         \* the lines executed since the loop test was last evaluated
    try_result,      \* the value of __trust_try_result
    cli_pc,          \* trusty-cli: the position of the running command in its code
    files,           \* the source files on disk: per file, its import lines and exports
    seen,            \* resolve_module_file: seen, the modules already bundled
    stack,           \* resolve_module_file: stack, the modules being resolved
    frames,          \* resolve_module_file: the activations, innermost last
    dep_file,        \* resolve_module_file: the file of the call that starts
    child,           \* resolve_module_file: the value of the call that returned
    bundle,          \* the Result<String> of resolve_and_bundle_modules
    build_files,     \* the build directory: the .rs file, the binary, cargo's binary
    tool,            \* what rustc or cargo does when it is run
    spawned,         \* the binary that run_file has spawned
    cli_result       \* the Result of the command

preVars == <<source, preprocessed, reprocessed>>

vecVars == <<use_statements, type_decls, impl_blocks, global_consts, function_code,
             required_crates, module_aliases>>

fnVars == <<func, scope, params, return_type, body, func_code>>

detVars == <<stderr, calls, first_output>>

runVars == <<gen_lines, gen_at, gen_log, try_result>>

bundleVars == <<files, seen, stack, frames, dep_file, child, bundle>>

buildVars == <<build_files, tool, spawned, cli_result>>

cliVars == <<cli_pc, bundleVars, buildVars>>

extVars == <<runVars, cliVars>>

vars == <<pc, preVars, module, idx, vecVars, output, fnVars, detVars, extVars>>

\* Result<TranspileOutput>
NoOutput == [status |-> "none", rust_code |-> <<>>, required_crates |-> <<>>, err |-> ""]

Ok(code, crates) == [status |-> "ok", rust_code |-> code, required_crates |-> crates, err |-> ""]

Err(msg) == [status |-> "err", rust_code |-> <<>>, required_crates |-> <<>>, err |-> msg]

\* the variables of functions that are not running
PreIdle == source = <<>> /\ preprocessed = NoneStr /\ reprocessed = NoneStr

TranspileIdle ==
    /\ module = <<>> /\ idx = 1 /\ output = NoOutput
    /\ use_statements = <<>> /\ type_decls = <<>> /\ impl_blocks = <<>>
    /\ global_consts = <<>> /\ function_code = <<>>
    /\ required_crates = <<>> /\ module_aliases = <<>>

FnIdle ==
    /\ func = [kind |-> "none"] /\ scope = EmptyScope /\ params = <<>>
    /\ return_type = <<>> /\ body = <<>> /\ func_code = <<>>

DetIdle == stderr = <<>> /\ calls = 0 /\ first_output = <<>>

RunIdle == gen_lines = <<>> /\ gen_at = 0 /\ gen_log = <<>> /\ try_result = "none"

\* Result<String> of the bundler, before it returns, Ok(text) and Err(msg)
NoBundle == [status |-> "none", text |-> <<>>, err |-> ""]

Bundled(text) == [status |-> "ok", text |-> text, err |-> ""]

BundleErr(msg) == [status |-> "err", text |-> <<>>, err |-> msg]

BundleIdle ==
    /\ files = <<>> /\ seen = {} /\ stack = <<>> /\ frames = <<>>
    /\ dep_file = "none" /\ child = <<>> /\ bundle = NoBundle

BuildIdle ==
    /\ build_files = [rs |-> FALSE, bin |-> "absent", cargo_bin |-> "absent"]
    /\ tool = "none" /\ spawned = "none" /\ cli_result = "none"

CliIdle == cli_pc = "idle" /\ BundleIdle /\ BuildIdle

ExtIdle == RunIdle /\ CliIdle

(***************************************************************************)
(* compile_full, up to the parser: validation, then preprocess.            *)
(***************************************************************************)

InitPre ==
    /\ source \in Sources
    /\ pc = "start"
    /\ preprocessed = NoneStr
    /\ reprocessed = NoneStr
    /\ TranspileIdle /\ FnIdle /\ DetIdle /\ ExtIdle

\* reject_unsupported_while(source)?
CompileValidate ==
    /\ pc = "start"
    /\ pc' = IF reject_unsupported_while(source) THEN "rejected" ELSE "validated"
    /\ output' = IF reject_unsupported_while(source) THEN Err("while is not supported")
                 ELSE output
    /\ UNCHANGED <<preVars, module, idx, vecVars, fnVars, detVars, extVars>>

\* warn_on_deprecated_number_alias(source): one line on stderr, nothing else
CompileWarn ==
    /\ pc = "validated"
    /\ stderr' = IF contains_identifier_in_code(source, <<"n", "u", "m", "b", "e", "r">>)
                 THEN Append(stderr, "Deprecated type alias number detected.")
                 ELSE stderr
    /\ pc' = "warned"
    /\ UNCHANGED <<preVars, module, idx, vecVars, output, fnVars, calls, first_output, extVars>>

\* let preprocessed = preprocess(source);
CompilePreprocess ==
    /\ pc = "warned"
    /\ preprocessed' = preprocess(source)
    /\ pc' = IF preprocessed'.panic THEN "panicked" ELSE "preprocessed"
    /\ UNCHANGED <<source, reprocessed, module, idx, vecVars, output, fnVars, detVars, extVars>>

\* preprocess applied to text that is already preprocessed
PreprocessAgain ==
    /\ pc = "preprocessed"
    /\ reprocessed' = preprocess(preprocessed.val)
    /\ pc' = "reprocessed"
    /\ UNCHANGED <<source, preprocessed, module, idx, vecVars, output, fnVars, detVars, extVars>>

NextPre == CompileValidate \/ CompileWarn \/ CompilePreprocess \/ PreprocessAgain

SpecPre == InitPre /\ [][NextPre]_vars

(***************************************************************************)
(* transpiler/mod.rs: transpile_to_rust, one action per arm of the item    *)
(* loop and one for the code after the loop.                               *)
(***************************************************************************)

\* a vector that takes every element of xs, seen before or not
C12_PushAll(v, xs) == v \o xs

\* for x in xs { if !v.contains(&x) { v.push(x); } }
RECURSIVE push_new(_, _)
push_new(v, xs) ==
    IF xs = <<>> THEN v
    ELSE push_new(IF vec_contains(v, Head(xs)) THEN v ELSE Append(v, Head(xs)), Tail(xs))

\* Vec::insert(i, x), i counted from 0
vec_insert(v, i, x) == Take(v, i) \o <<x>> \o Drop(v, i)

\* if !v.contains(x) { v.insert(i, x); }
insert_new(v, i, x) == IF vec_contains(v, x) THEN v ELSE vec_insert(v, i, x)

\* Whether the unit imports the json shim.  The call in mod.rs passes no such
\* argument; this is the caller's side as the specification describes it.
json_enabled(items) ==
    \E k \in 1..Len(items) : items[k].kind = "import" /\ items[k].src = <<"t", "r", "u", "s", "t", "y", ":", "j", "s", "o", "n">>

\* the state in which transpile_to_rust starts on module m
TranspileStart(m) ==
    /\ module = m /\ idx = 1 /\ output = NoOutput
    /\ use_statements = <<>> /\ type_decls = <<>> /\ impl_blocks = <<>>
    /\ global_consts = <<>> /\ function_code = <<>>
    /\ required_crates = <<>> /\ module_aliases = <<>>

Init ==
    /\ pc = "items"
    /\ \E m \in Modules : TranspileStart(m)
    /\ PreIdle /\ FnIdle /\ DetIdle /\ ExtIdle

AtItem(kind) == pc = "items" /\ idx <= Len(module) /\ module[idx].kind = kind

ItemImport ==
    /\ AtItem("import")
    /\ transpile_import(module[idx]).ok
    /\ use_statements' = push_new(use_statements, transpile_import(module[idx]).use_statements)
    /\ required_crates' = push_new(required_crates, transpile_import(module[idx]).required_crates)
    /\ module_aliases' = push_new(module_aliases, transpile_import(module[idx]).module_aliases)
    /\ idx' = idx + 1
    /\ UNCHANGED <<pc, preVars, module, type_decls, impl_blocks, global_consts,
                   function_code, output, fnVars, detVars, extVars>>

\* imports::transpile_import(import_decl)? returns the error
ImportError ==
    /\ AtItem("import")
    /\ ~transpile_import(module[idx]).ok
    /\ output' = Err(transpile_import(module[idx]).err)
    /\ pc' = "failed"
    /\ UNCHANGED <<preVars, module, idx, vecVars, fnVars, detVars, extVars>>

ItemInterface ==
    /\ AtItem("interface")
    /\ type_decls' = Append(type_decls, transpile_interface(module[idx], json_enabled(module)))
    /\ idx' = idx + 1
    /\ UNCHANGED <<pc, preVars, module, use_statements, impl_blocks, global_consts,
                   function_code, required_crates, module_aliases, output, fnVars, detVars, extVars>>

ItemEnum ==
    /\ AtItem("enum")
    /\ type_decls' = Append(type_decls, transpile_enum(module[idx]))
    /\ idx' = idx + 1
    /\ UNCHANGED <<pc, preVars, module, use_statements, impl_blocks, global_consts,
                   function_code, required_crates, module_aliases, output, fnVars, detVars, extVars>>

ItemFn ==
    /\ AtItem("fn")
    /\ function_code' = Append(function_code, transpile_function(module[idx], module_aliases))
    /\ idx' = idx + 1
    /\ UNCHANGED <<pc, preVars, module, use_statements, type_decls, impl_blocks,
                   global_consts, required_crates, module_aliases, output, fnVars, detVars, extVars>>

ItemClass ==
    /\ AtItem("class")
    /\ transpile_impl_block(module[idx], module_aliases).ok
    /\ impl_blocks' = IF transpile_impl_block(module[idx], module_aliases).some
                      THEN Append(impl_blocks, transpile_impl_block(module[idx], module_aliases).code)
                      ELSE impl_blocks
    /\ idx' = idx + 1
    /\ UNCHANGED <<pc, preVars, module, use_statements, type_decls, global_consts,
                   function_code, required_crates, module_aliases, output, fnVars, detVars, extVars>>

\* functions::transpile_impl_block(class_decl, &module_aliases)? returns the
\* error
ClassError ==
    /\ AtItem("class")
    /\ ~transpile_impl_block(module[idx], module_aliases).ok
    /\ output' = Err(transpile_impl_block(module[idx], module_aliases).err)
    /\ pc' = "failed"
    /\ UNCHANGED <<preVars, module, idx, vecVars, fnVars, detVars, extVars>>

ItemVar ==
    /\ AtItem("var")
    /\ global_consts' = global_consts \o transpile_global_const(module[idx])
    /\ idx' = idx + 1
    /\ UNCHANGED <<pc, preVars, module, use_statements, type_decls, impl_blocks,
                   function_code, required_crates, module_aliases, output, fnVars, detVars, extVars>>

\* _ => {}
ItemOther ==
    /\ AtItem("other")
    /\ idx' = idx + 1
    /\ UNCHANGED <<pc, preVars, module, vecVars, output, fnVars, detVars, extVars>>

\* iter().cloned().collect::<String>()
concat(entries) == join(entries, <<>>)

\* the four auto-injections, in the order of the code
inject_rc(uses, all_code) ==
    IF str_contains(all_code, <<"R", "c", "<", "R", "e", "f", "C", "e", "l", "l", "<">>)
    THEN insert_new(insert_new(uses, 0, <<"u", "s", "e", " ", "s", "t", "d", ":", ":", "r", "c", ":", ":", "R", "c", ";">>), 1, <<"u", "s", "e", " ", "s", "t", "d", ":", ":", "c", "e", "l", "l", ":", ":", "R", "e", "f", "C", "e", "l", "l", ";">>)
    ELSE uses

inject_arc(uses, all_code) ==
    IF str_contains(all_code, <<"A", "r", "c", "<", "M", "u", "t", "e", "x", "<">>)
    THEN insert_new(uses, 0, <<"u", "s", "e", " ", "s", "t", "d", ":", ":", "s", "y", "n", "c", ":", ":", "{", "A", "r", "c", ",", " ", "M", "u", "t", "e", "x", "}", ";">>)
    ELSE uses

inject_hashmap(uses, all_code) ==
    IF str_contains(all_code, <<"H", "a", "s", "h", "M", "a", "p", "<">>) \/ str_contains(all_code, <<"H", "a", "s", "h", "M", "a", "p", ":", ":", "n", "e", "w", "(", ")">>)
    THEN insert_new(uses, 0, <<"u", "s", "e", " ", "s", "t", "d", ":", ":", "c", "o", "l", "l", "e", "c", "t", "i", "o", "n", "s", ":", ":", "H", "a", "s", "h", "M", "a", "p", ";">>)
    ELSE uses

inject_hashset(uses, all_code) ==
    IF str_contains(all_code, <<"H", "a", "s", "h", "S", "e", "t", "<">>) \/ str_contains(all_code, <<"H", "a", "s", "h", "S", "e", "t", ":", ":", "n", "e", "w", "(", ")">>)
    THEN insert_new(uses, 0, <<"u", "s", "e", " ", "s", "t", "d", ":", ":", "c", "o", "l", "l", "e", "c", "t", "i", "o", "n", "s", ":", ":", "H", "a", "s", "h", "S", "e", "t", ";">>)
    ELSE uses

auto_inject(uses, all_code) ==
    inject_hashset(inject_hashmap(inject_arc(inject_rc(uses, all_code), all_code), all_code),
                   all_code)

\* for x in v { rust_code.push_str(x); rust_code.push_str(sep); }
push_all(v, sep) == concat([k \in 1..Len(v) |-> v[k] \o sep])

\* the text before the final trim
assemble(uses, types, impls, consts, funcs) ==
    push_all(uses, <<"\n">>) \o (IF uses # <<>> THEN <<"\n">> ELSE <<>>)
    \o push_all(types, <<"\n", "\n">>) \o push_all(impls, <<"\n", "\n">>)
    \o push_all(consts, <<"\n", "\n">>) \o push_all(funcs, <<"\n", "\n">>)

\* the code after the item loop: all_code, auto-injection, assembly, Ok(..)
Assemble ==
    /\ pc = "items" /\ idx > Len(module)
    /\ use_statements' =
           auto_inject(use_statements,
                       concat(use_statements \o type_decls \o impl_blocks
                              \o global_consts \o function_code))
    /\ output' = Ok(trim(assemble(use_statements', type_decls, impl_blocks,
                                  global_consts, function_code)),
                    required_crates)
    /\ pc' = "done"
    /\ UNCHANGED <<preVars, module, idx, type_decls, impl_blocks, global_consts,
                   function_code, required_crates, module_aliases, fnVars, detVars, extVars>>

Next ==
    \/ ItemImport \/ ImportError \/ ItemInterface \/ ItemEnum \/ ItemFn
    \/ ItemClass \/ ClassError \/ ItemVar \/ ItemOther \/ Assemble

Spec == Init /\ [][Next]_vars

(***************************************************************************)
(* transpiler/functions.rs: transpile_function, statement by statement, on *)
(* functions `function f(x: T): R { stmt }`.                               *)
(***************************************************************************)

PrimitiveNames ==
    {<<"n", "u", "m", "b", "e", "r", "8">>, <<"n", "u", "m", "b", "e", "r", "1", "6">>, <<"n", "u", "m", "b", "e", "r", "3", "2">>, <<"n", "u", "m", "b", "e", "r", "6", "4">>, <<"f", "l", "o", "a", "t", "3", "2">>, <<"f", "l", "o", "a", "t", "6", "4">>,
     <<"i", "n", "t", "8">>, <<"i", "n", "t", "1", "6">>, <<"i", "n", "t", "3", "2">>, <<"i", "n", "t", "6", "4">>, <<"i", "n", "t">>, <<"f", "l", "o", "a", "t">>}

ParamTypes ==
    {Ref(n, <<>>) : n \in PrimitiveNames}
    \cup { Kw("number"), Kw("string"), NoType, Ref(<<"P">>, <<>>),
           Ref(<<"P", "o", "i", "n", "t", "e", "r">>, <<Ref(<<"P">>, <<>>)>>), Ref(<<"P", "o", "i", "n", "t", "e", "r">>, <<Kw("string")>>),
           Ref(<<"T", "h", "r", "e", "a", "d", "e", "d">>, <<Ref(<<"P">>, <<>>)>>), Ref(<<"T", "h", "r", "e", "a", "d", "e", "d">>, <<Kw("string")>>),
           Ref(<<"P", "o", "i", "n", "t", "e", "r">>, <<Ref(<<"i", "n", "t", "3", "2">>, <<>>)>>),
           [k |-> "arr", elem |-> Ref(<<"i", "n", "t", "6", "4">>, <<>>)] }

ReturnTypes ==
    { NoType, Kw("number"), Ref(<<"i", "n", "t", "3", "2">>, <<>>), Ref(<<"f", "l", "o", "a", "t">>, <<>>), Ref(<<"f", "l", "o", "a", "t", "6", "4">>, <<>>),
      Ref(<<"M", "a", "p">>, <<Kw("string"), Ref(<<"i", "n", "t">>, <<>>)>>) }

Num1 == [e |-> "num", text |-> <<"1">>]

AssignMember(obj, prop, right) ==
    [e |-> "assign",
     target |-> [t |-> "member", obj |-> obj, computed |-> FALSE, prop |-> prop],
     right |-> right]

Bodies ==
    { Return(Member(Id(<<"x">>), <<"f">>)),
      Return(Member(Id(<<"x">>), <<"l", "e", "n", "g", "t", "h">>)),
      Return(Member(Id(<<"y">>), <<"f">>)),
      Return(Member(Id(<<"m">>), <<"f">>)),
      Return([Member(Id(<<"x">>), <<>>) EXCEPT !.computed = TRUE, !.index = Num1]),
      [s |-> "expr", expr |-> AssignMember(Id(<<"x">>), <<"f">>, Num1)],
      [s |-> "expr", expr |-> AssignMember(Id(<<"m">>), <<"f">>, Member(Id(<<"x">>), <<"f">>))] }

FnDecls ==
    {[Fn(<<"f">>, <<[name |-> <<"x">>, type |-> t]>>, r, <<b>>) EXCEPT !.is_async = a] :
        t \in ParamTypes, r \in ReturnTypes, b \in Bodies, a \in BOOLEAN}

\* the module aliases in force when the function is reached
FnAliases == {<<>>, <<<<"m">>>>, <<<<"x">>>>}

InitFn ==
    /\ pc = "fn_start"
    /\ func \in FnDecls
    /\ module_aliases \in FnAliases
    /\ scope = EmptyScope /\ params = <<>> /\ return_type = <<>>
    /\ body = <<>> /\ func_code = <<>>
    /\ module = <<>> /\ idx = 1 /\ output = NoOutput
    /\ use_statements = <<>> /\ type_decls = <<>> /\ impl_blocks = <<>>
    /\ global_consts = <<>> /\ function_code = <<>> /\ required_crates = <<>>
    /\ PreIdle /\ DetIdle /\ ExtIdle

FnFrame == <<preVars, module, idx, vecVars, output, func, detVars, extVars>>

\* let mut scope = base_scope(module_aliases);
FnBaseScope ==
    /\ pc = "fn_start"
    /\ scope' = base_scope(module_aliases)
    /\ pc' = "fn_params"
    /\ UNCHANGED <<FnFrame, params, return_type, body, func_code>>

\* let params = transpile_params(&func.function.params, &mut scope)?;
FnParams ==
    /\ pc = "fn_params"
    /\ params' = transpile_params(func.params)
    /\ scope' = params_scope(func.params, scope)
    /\ pc' = "fn_return_type"
    /\ UNCHANGED <<FnFrame, return_type, body, func_code>>

\* let return_type = transpile_return_type(&func.function.return_type)?;
FnReturnType ==
    /\ pc = "fn_return_type"
    /\ return_type' = transpile_return_type(func.ret)
    /\ pc' = IF func.is_async THEN "fn_async" ELSE "fn_block"
    /\ UNCHANGED <<FnFrame, scope, params, body, func_code>>

\* the is_async branch: transpile_async_block, then the early return
FnAsync ==
    /\ pc = "fn_async"
    /\ body' = transpile_async_block(func, scope)
    /\ func_code' = format_function(func.name, params, return_type, body', TRUE)
    /\ pc' = "fn_done"
    /\ UNCHANGED <<FnFrame, scope, params, return_type>>

\* let body = transpile_block(&func.function.body, &mut scope)?;
FnBlock ==
    /\ pc = "fn_block"
    /\ body' = transpile_block(func, scope)
    /\ pc' = "fn_format"
    /\ UNCHANGED <<FnFrame, scope, params, return_type, func_code>>

\* Ok(format!("fn {}({}) -> {} {{\n{}\n}}", name, params, return_type, body))
FnFormat ==
    /\ pc = "fn_format"
    /\ func_code' = format_function(func.name, params, return_type, body, FALSE)
    /\ pc' = "fn_done"
    /\ UNCHANGED <<FnFrame, scope, params, return_type, body>>

NextFn == FnBaseScope \/ FnParams \/ FnReturnType \/ FnAsync \/ FnBlock \/ FnFormat

SpecFn == InitFn /\ [][NextFn]_vars

(***************************************************************************)
(* The parse trees of a function of one statement, `await e;` or           *)
(* `(e).join().unwrap();`, and their texts.                                *)
(***************************************************************************)

Await(arg) == [e |-> "await", arg |-> arg]

Paren(expr) == [e |-> "paren", expr |-> expr]

\* the expressions e
WaitExprs ==
    { Id(<<"h">>),
      Call(Id(<<"f">>), <<>>),
      Member(Id(<<"p">>), <<"h">>),
      [e |-> "bin", op |-> <<"+">>, left |-> Id(<<"a">>), right |-> Id(<<"b">>)],
      Paren(Id(<<"h">>)),
      Call(Member(Id(<<"p">>), <<"g", "e", "t">>), <<>>) }

\* (e).join().unwrap() as the parser reads it: a call of the member unwrap of
\* a call of the member join of a parenthesised expression
JoinUnwrap(expr) ==
    Call(Member(Call(Member(Paren(expr), <<"j", "o", "i", "n">>), <<>>), <<"u", "n", "w", "r", "a", "p">>), <<>>)

\* the source text of an expression
RECURSIVE unparse(_)
unparse(expr) ==
    IF expr.e = "ident" THEN expr.name
    ELSE IF expr.e = "num" THEN expr.text
    ELSE IF expr.e = "bin" THEN unparse(expr.left) \o <<" ">> \o expr.op \o <<" ">> \o unparse(expr.right)
    ELSE IF expr.e = "member" THEN unparse(expr.obj) \o <<".">> \o expr.prop
    ELSE IF expr.e = "call"
    THEN unparse(expr.callee) \o <<"(">>
         \o join([k \in 1..Len(expr.args) |-> unparse(expr.args[k])], <<",", " ">>) \o <<")">>
    ELSE IF expr.e = "paren" THEN <<"(">> \o unparse(expr.expr) \o <<")">>
    ELSE IF expr.e = "await" THEN <<"a", "w", "a", "i", "t", " ">> \o unparse(expr.arg)
    ELSE <<>>

WaitMain(stmt) == Fn(<<"m", "a", "i", "n">>, <<>>, NoType, <<stmt>>)

\* the units the parser can return here
WaitUnits ==
    {<<WaitMain(ExprStmt(x))>> :
        x \in {Await(e) : e \in WaitExprs} \cup {JoinUnwrap(e) : e \in WaitExprs}}

\* the text of a unit, its statement indented by ind
unit_text(unit, ind) ==
    <<"f", "u", "n", "c", "t", "i", "o", "n", " ", "m", "a", "i", "n", "(", ")", " ", "{", "\n">> \o ind \o unparse(unit[1].body[1].expr) \o <<";", "\n", "}">>

WaitIndents == {<<>>, <<" ", " ", " ", " ">>}

\* the parser's result on the texts of WaitUnits: white space before a
\* statement does not change the tree
WaitParsed == {[code |-> unit_text(u, ind), module |-> u] : u \in WaitUnits, ind \in WaitIndents}

(***************************************************************************)
(* Top-level lines with and without `export`, and the module item the      *)
(* parser returns for each: an export declaration is a                     *)
(* ModuleItem::ModuleDecl, which transpile_to_rust matches with `_`.       *)
(***************************************************************************)

VarItem(var_kind, name) ==
    [kind |-> "var", var_kind |-> var_kind,
     decls |-> << [name |-> name, type |-> NoType, has_init |-> TRUE, init |-> Num1] >>]

ExportDecl == [kind |-> "other"]

LineParsed ==
    { [line |-> <<"f", "u", "n", "c", "t", "i", "o", "n", " ", "f", "(", ")", " ", "{", "}">>, item |-> Fn(<<"f">>, <<>>, NoType, <<>>)],
      [line |-> <<"c", "o", "n", "s", "t", " ", "N", " ", "=", " ", "1", ";">>, item |-> VarItem("const", <<"N">>)],
      [line |-> <<"l", "e", "t", " ", "y", " ", "=", " ", "1", ";">>, item |-> VarItem("let", <<"y">>)],
      [line |-> <<"e", "x", "p", "o", "r", "t", " ", "f", "u", "n", "c", "t", "i", "o", "n", " ", "f", "(", ")", " ", "{", "}">>, item |-> ExportDecl],
      [line |-> <<"e", "x", "p", "o", "r", "t", " ", "c", "o", "n", "s", "t", " ", "N", " ", "=", " ", "1", ";">>, item |-> ExportDecl],
      [line |-> <<"e", "x", "p", "o", "r", "t", " ", "l", "e", "t", " ", "x", " ", "=", " ", "1", ";">>, item |-> ExportDecl],
      [line |-> <<"e", "x", "p", "o", "r", "t", "\t", "l", "e", "t", " ", "x", " ", "=", " ", "1", ";">>, item |-> ExportDecl],
      [line |-> <<"e", "x", "p", "o", "r", "t", " ", "c", "l", "a", "s", "s", " ", "A", " ", "{", "}">>, item |-> ExportDecl],
      [line |-> <<"e", "x", "p", "o", "r", "t", " ", "d", "e", "f", "a", "u", "l", "t", " ", "1", ";">>, item |-> ExportDecl],
      [line |-> <<"e", "x", "p", "o", "r", "t", " ", "{", " ", "y", " ", "}", ";">>, item |-> ExportDecl] }

ParsesByLine(code) ==
    code # <<>> /\ \A n \in 1..Len(lines(code)) :
                       \E p \in LineParsed : p.line = trim_start(lines(code)[n])

\* the module of a text whose lines are all in LineParsed
parse_lines(code) ==
    [n \in 1..Len(lines(code)) |->
        (CHOOSE p \in LineParsed : p.line = trim_start(lines(code)[n])).item]

(***************************************************************************)
(* compile_full, invoked again and again in one process.  The parser       *)
(* (parser.rs, swc) is a fixed function of the preprocessed text: the      *)
(* table Parsed gives its result on the texts of DetSources and of         *)
(* WaitUnits, parse_lines on the texts made of the lines of LineParsed,     *)
(* and any other text is a parse error.                                    *)
(***************************************************************************)

\* source texts and the module bodies that their preprocessed texts parse to
DetUnits ==
    { [text |-> <<"i", "m", "p", "o", "r", "t", " ", "{", " ", "r", "a", "n", "d", "o", "m", " ", "}", " ", "f", "r", "o", "m", " ", "\"", "t", "r", "u", "s", "t", "y", ":", "r", "a", "n", "d", "\"", ";", "\n", "i", "m", "p", "o", "r", "t", " ", "{", " ", "R", "n", "g", " ", "}", " ", "f", "r", "o", "m", " ", "\"", "r", "a", "n", "d", "\"", ";">>,
       module |-> << Import(<<"t", "r", "u", "s", "t", "y", ":", "r", "a", "n", "d">>, <<Specifier("named", <<"r", "a", "n", "d", "o", "m">>)>>),
                     Import(<<"r", "a", "n", "d">>, <<Specifier("named", <<"R", "n", "g">>)>>) >>],
      [text |-> <<"s", "t", "r", "u", "c", "t", " ", "P", " ", "{", " ", "x", ":", " ", "n", "u", "m", "b", "e", "r", ";", " ", "n", "e", "x", "t", ":", " ", "P", " ", "}", "\n", "i", "m", "p", "o", "r", "t", " ", "{", " ", "t", "o", "J", "S", "O", "N", " ", "}", " ", "f", "r", "o", "m", " ", "\"", "t", "r", "u", "s", "t", "y", ":", "j", "s", "o", "n", "\"", ";">>,
       module |-> << [kind |-> "interface", name |-> <<"P">>,
                      members |-> << [name |-> <<"x">>, type |-> Kw("number")],
                                     [name |-> <<"n", "e", "x", "t">>, type |-> Ref(<<"P">>, <<>>)] >>],
                     Import(<<"t", "r", "u", "s", "t", "y", ":", "j", "s", "o", "n">>, <<Specifier("named", <<"t", "o", "J", "S", "O", "N">>)>>) >>],
      [text |-> <<"e", "n", "u", "m", " ", "L", "e", "v", "e", "l", " ", "{", " ", "L", "o", "w", " ", "=", " ", "1", ",", " ", "H", "i", "g", "h", " ", "}", "\n", "f", "u", "n", "c", "t", "i", "o", "n", " ", "g", "e", "t", "(", "p", ":", " ", "P", "o", "i", "n", "t", "e", "r", "<", "P", ">", ")", ":", " ", "n", "u", "m", "b", "e", "r", " ", "{", " ", "r", "e", "t", "u", "r", "n", " ", "p", ".", "x", ";", " ", "}">>,
       module |-> << [kind |-> "enum", name |-> <<"L", "e", "v", "e", "l">>,
                      members |-> << [name |-> <<"L", "o", "w">>, init |-> [d |-> "num", v |-> <<"1">>]],
                                     [name |-> <<"H", "i", "g", "h">>, init |-> [d |-> "none"]] >>],
                     Fn(<<"g", "e", "t">>, << [name |-> <<"p">>,
                                     type |-> Ref(<<"P", "o", "i", "n", "t", "e", "r">>, <<Ref(<<"P">>, <<>>)>>)] >>,
                        Kw("number"), << Return(Member(Id(<<"p">>), <<"x">>)) >>) >>],
      [text |-> <<"i", "m", "p", "l", "e", "m", "e", "n", "t", "s", " ", "P", " ", "{", "\n", " ", " ", "f", "u", "n", "c", "t", "i", "o", "n", " ", "b", "u", "m", "p", "(", ")", " ", "{", " ", "t", "h", "i", "s", ".", "x", " ", "=", " ", "1", ";", " ", "}", "\n", "}", "\n", "c", "o", "n", "s", "t", " ", "N", " ", "=", " ", "1", ";", "\n", "i", "n", "i", "t", "(", ")", ";">>,
       module |-> << [kind |-> "class", name |-> <<"P">>,
                      methods |-> << [Fn(<<"b", "u", "m", "p">>, <<>>, NoType,
                                         << [s |-> "expr",
                                             expr |-> AssignMember([e |-> "this"], <<"x">>, Num1)] >>)
                                      EXCEPT !.kind = "method"] >>],
                     [kind |-> "var", var_kind |-> "const",
                      decls |-> << [name |-> <<"N">>, type |-> NoType, has_init |-> TRUE,
                                    init |-> Num1] >>],
                     [kind |-> "other"] >>],
      [text |-> <<"i", "m", "p", "o", "r", "t", " ", "t", " ", "f", "r", "o", "m", " ", "\"", "t", "r", "u", "s", "t", "y", ":", "t", "i", "m", "e", "\"", ";">>,
       module |-> << Import(<<"t", "r", "u", "s", "t", "y", ":", "t", "i", "m", "e">>, <<Specifier("default", <<"t">>)>>) >>],
      [text |-> <<"i", "m", "p", "l", "e", "m", "e", "n", "t", "s", " ", "R", " ", "{", "\n", " ", " ", "a", "s", "y", "n", "c", " ", "r", "u", "n", "(", ")", " ", "{", " ", "}", "\n", "}">>,
       module |-> << [kind |-> "class", name |-> <<"R">>,
                      methods |-> << [Fn(<<"r", "u", "n">>, <<>>, NoType, <<>>)
                                      EXCEPT !.kind = "method", !.is_async = TRUE] >>] >>] }

DetSources ==
    {u.text : u \in DetUnits} \cup {<<"w", "h", "i", "l", "e", " ", "(", "x", ")", " ", "{", " ", "}">>, <<"f", "u", "n", "c", "t", "i", "o", "n", " ", "(">>}

Parsed ==
    {[code |-> preprocess(u.text).val, module |-> u.module] : u \in DetUnits} \cup WaitParsed

\* parser::parse_typescript(&preprocessed)
parse_typescript(code) ==
    IF \E p \in Parsed : p.code = code
    THEN [ok |-> TRUE, module |-> (CHOOSE p \in Parsed : p.code = code).module]
    ELSE IF ParsesByLine(code) THEN [ok |-> TRUE, module |-> parse_lines(code)]
    ELSE [ok |-> FALSE, module |-> <<>>]

\* a vector that starts from what the previous invocation left in
\* required_crates
C3_StaleLocals == required_crates

\* Vec::new()
Vec_new == <<>>

MaxCalls == 3

InitDet ==
    /\ pc = "idle"
    /\ PreIdle /\ TranspileIdle /\ FnIdle /\ DetIdle /\ ExtIdle

\* a caller invokes compile_full(source)
CompileInvoke ==
    /\ pc = "idle" /\ calls < MaxCalls
    /\ source' \in DetSources
    /\ preprocessed' = NoneStr
    /\ output' = NoOutput
    /\ calls' = calls + 1
    /\ pc' = "start"
    /\ UNCHANGED <<reprocessed, module, idx, vecVars, fnVars, stderr, first_output, extVars>>

\* let ast = parser::parse_typescript(&preprocessed)?; then the entry of
\* transpile_to_rust with its fresh locals
CompileParse ==
    /\ pc = "preprocessed"
    /\ IF parse_typescript(preprocessed.val).ok
       THEN /\ module' = parse_typescript(preprocessed.val).module
            /\ idx' = 1
            /\ use_statements' = Vec_new /\ type_decls' = Vec_new
            /\ impl_blocks' = Vec_new /\ global_consts' = Vec_new
            /\ function_code' = Vec_new /\ required_crates' = Vec_new
            /\ module_aliases' = Vec_new
            /\ pc' = "items"
            /\ UNCHANGED output
       ELSE /\ output' = Err("Parse error")
            /\ pc' = "failed"
            /\ UNCHANGED <<module, idx, vecVars>>
    /\ UNCHANGED <<preVars, fnVars, detVars, extVars>>

\* compile_full returns its Result to the caller
CompileReturn ==
    /\ pc \in {"rejected", "failed", "done"}
    /\ first_output' =
           [s \in DOMAIN first_output \cup {source} |->
               IF s \in DOMAIN first_output THEN first_output[s] ELSE output]
    /\ pc' = "idle"
    /\ UNCHANGED <<preVars, module, idx, vecVars, output, fnVars, stderr, calls, extVars>>

NextDet ==
    \/ CompileInvoke \/ CompileValidate \/ CompileWarn \/ CompilePreprocess
    \/ CompileParse \/ Next \/ CompileReturn

SpecDet == InitDet /\ [][NextDet]_vars

(***************************************************************************)
(* transpile_to_rust on a unit of one import declaration: every source     *)
(* string below with every list of specifiers.                             *)
(***************************************************************************)

ImportSources ==
    { <<"t", "r", "u", "s", "t", "y", ":", "m", "a", "t", "h">>, <<"t", "r", "u", "s", "t", "y", ":", "r", "a", "n", "d">>, <<"t", "r", "u", "s", "t", "y", ":", "t", "i", "m", "e">>, <<"t", "r", "u", "s", "t", "y", ":", "j", "s", "o", "n">>, <<"t", "r", "u", "s", "t", "y", ":", "h", "t", "t", "p">>,
      <<"t", "r", "u", "s", "t", "y", ":", "f", "s">>, <<"t", "r", "u", "s", "t", "y", ":">>, <<"r", "e", "g", "e", "x">>, <<"s", "t", "d", "/", "f", "s">>, <<".", "/", "u", "t", "i", "l">> }

SpecifierLists ==
    { <<>>,
      <<Specifier("named", <<"a">>)>>,
      <<Specifier("named", <<"a">>), Specifier("named", <<"b">>)>>,
      <<Specifier("ns", <<"a">>)>>,
      <<Specifier("default", <<"a">>)>>,
      <<Specifier("default", <<"a">>), Specifier("named", <<"b">>)>>,
      <<Specifier("default", <<"a">>), Specifier("ns", <<"b">>)>> }

ImportModules == {<<Import(src, specifiers)>> : src \in ImportSources, specifiers \in SpecifierLists}

InitImport ==
    /\ pc = "items"
    /\ \E m \in ImportModules : TranspileStart(m)
    /\ PreIdle /\ FnIdle /\ DetIdle /\ ExtIdle

NextImport == ItemImport \/ ImportError \/ Assemble

SpecImport == InitImport /\ [][NextImport]_vars

(***************************************************************************)
(* transpile_to_rust on a unit of one default import and one function or   *)
(* method that uses the alias `m` as a receiver, in both orders.           *)
(***************************************************************************)

AliasImports ==
    { Import(<<"t", "r", "u", "s", "t", "y", ":", "m", "a", "t", "h">>, <<Specifier("default", <<"m">>)>>),
      Import(<<"r", "e", "g", "e", "x">>, <<Specifier("default", <<"m">>)>>) }

AliasProps == {<<"P", "I">>, <<"l", "e", "n", "g", "t", "h">>, <<"g", "e", "t">>}

AliasMethods ==
    {<<"s", "q", "r", "t">>, <<"g", "e", "t">>, <<"s", "e", "t">>, <<"h", "a", "s">>, <<"m", "a", "p">>, <<"j", "o", "i", "n">>, <<"l", "o", "g">>, <<"t", "r", "i", "m">>, <<"a", "s", "M", "i", "l", "l", "i", "s">>}

AliasArgs == {<<Id(<<"x">>)>>, <<Id(<<"x">>), Id(<<"y">>)>>}

\* m.p and m.f(args)
AliasUses ==
    {Member(Id(<<"m">>), p) : p \in AliasProps}
        \cup {Call(Member(Id(<<"m">>), f), args) : f \in AliasMethods, args \in AliasArgs}

AliasFns == {Fn(<<"f">>, <<>>, NoType, <<Return(use)>>) : use \in AliasUses}

\* a function, or an implements block with the function as its method
AliasUsers ==
    AliasFns \cup {[kind |-> "class", name |-> <<"P">>, methods |-> <<[fn EXCEPT !.kind = "method"]>>] :
                      fn \in AliasFns}

AliasModules ==
    {<<i, u>> : i \in AliasImports, u \in AliasUsers}
        \cup {<<u, i>> : i \in AliasImports, u \in AliasUsers}

InitAlias ==
    /\ pc = "items"
    /\ \E m \in AliasModules : TranspileStart(m)
    /\ PreIdle /\ FnIdle /\ DetIdle /\ ExtIdle

NextAlias == ItemImport \/ ItemFn \/ ItemClass \/ Assemble

SpecAlias == InitAlias /\ [][NextAlias]_vars

(***************************************************************************)
(* The scope of one function, binding by binding: base_scope, the          *)
(* parameters, then the statements of the body in turn.  The catch clause  *)
(* of a try statement is entered with its own clone of the scope.          *)
(***************************************************************************)

Var(var_kind, name, type, init) ==
    [s |-> "var", var_kind |-> var_kind,
     decls |-> <<[name |-> name, type |-> type, has_init |-> TRUE, init |-> init]>>]

Block(stmts) == [s |-> "block", stmts |-> stmts]

ForOf(name, type, right, stmt) ==
    [s |-> "forof", head |-> [name |-> name, type |-> type], right |-> right, body |-> stmt]

NoParam == [some |-> FALSE, name |-> <<>>]

Try(block, has_handler, param, handler) ==
    [s |-> "try", block |-> block, has_handler |-> has_handler, param |-> param,
     handler |-> handler, has_finalizer |-> FALSE, finalizer |-> <<>>]

ScopeParams ==
    { <<>>,
      <<[name |-> <<"m">>, type |-> NoType]>>,
      <<[name |-> <<"m">>, type |-> Ref(<<"i", "n", "t", "3", "2">>, <<>>)]>>,
      <<[name |-> <<"p">>, type |-> Ref(<<"P", "o", "i", "n", "t", "e", "r">>, <<Ref(<<"P">>, <<>>)>>)]>> }

ScopeStmts ==
    { Var("let", <<"m">>, Kw("number"), Num1),
      Var("let", <<"m">>, NoType, Num1),
      Var("var", <<"m">>, Ref(<<"P", "o", "i", "n", "t", "e", "r">>, <<Kw("number")>>), Num1),
      Var("let", <<"m">>, NoType, Id(<<"p">>)),
      Var("let", <<"y">>, Kw("string"), [e |-> "str", value |-> <<"a">>]),
      ForOf(<<"m">>, Kw("number"), Id(<<"x", "s">>), Block(<<>>)),
      ForOf(<<"m">>, NoType, Id(<<"x", "s">>), Block(<<>>)),
      Try(<<>>, TRUE, [some |-> TRUE, name |-> <<"m">>], <<Return(Member(Id(<<"m">>), <<"f">>))>>),
      Try(<<>>, TRUE, NoParam, <<>>),
      Try(<<Var("let", <<"m">>, Kw("number"), Num1)>>, FALSE, NoParam, <<>>),
      Return(Member(Id(<<"m">>), <<"f">>)) }

MaxStmts == 2

ScopeBodies == UNION {[1..n -> ScopeStmts] : n \in 0..MaxStmts}

ScopeFns == {Fn(<<"f">>, ps, NoType, b) : ps \in ScopeParams, b \in ScopeBodies}

InitScope ==
    /\ pc = "sc_start"
    /\ func \in ScopeFns
    /\ module_aliases = <<<<"m">>>>
    /\ scope = EmptyScope /\ params = <<>> /\ return_type = <<>>
    /\ body = <<>> /\ func_code = <<>>
    /\ module = <<>> /\ idx = 1 /\ output = NoOutput
    /\ use_statements = <<>> /\ type_decls = <<>> /\ impl_blocks = <<>>
    /\ global_consts = <<>> /\ function_code = <<>> /\ required_crates = <<>>
    /\ PreIdle /\ DetIdle /\ ExtIdle

ScopeFrame ==
    <<preVars, module, use_statements, type_decls, impl_blocks, global_consts, function_code,
      required_crates, module_aliases, output, func, return_type, func_code, detVars, extVars>>

\* let mut scope = base_scope(module_aliases);
ScopeBase ==
    /\ pc = "sc_start"
    /\ scope' = base_scope(module_aliases)
    /\ pc' = "sc_params"
    /\ UNCHANGED <<ScopeFrame, idx, params, body>>

\* transpile_params: scope.insert for every parameter
ScopeParamsBound ==
    /\ pc = "sc_params"
    /\ params' = transpile_params(func.params)
    /\ scope' = params_scope(func.params, scope)
    /\ pc' = "sc_body"
    /\ UNCHANGED <<ScopeFrame, idx, body>>

AtStmt == pc = "sc_body" /\ idx <= Len(func.body)

EntersCatch(stmt) == stmt.s = "try" /\ stmt.has_handler

\* one turn of the loop of transpile_block_stmt
ScopeStmt ==
    /\ AtStmt /\ ~EntersCatch(func.body[idx])
    /\ scope' = lower_statement(func.body[idx], scope).scope
    /\ body' = Append(body, <<" ", " ", " ", " ">> \o lower_statement(func.body[idx], scope).text)
    /\ idx' = idx + 1
    /\ UNCHANGED <<ScopeFrame, pc, params>>

\* transpile_try_stmt reaches the handler: catch_scope is a clone of the
\* scope with the catch name bound
ScopeCatch ==
    /\ AtStmt /\ EntersCatch(func.body[idx])
    /\ scope' = catch_scope(func.body[idx], scope)
    /\ pc' = "sc_catch"
    /\ UNCHANGED <<ScopeFrame, idx, params, body>>

\* the scope of the function when item k of the body is reached
ScopeAt(k) ==
    block_scope(SubSeq(func.body, 1, k - 1), params_scope(func.params, base_scope(module_aliases)))

\* transpile_try_stmt returns: catch_scope is dropped, the function's scope
\* is as it was
ScopeCatchExit ==
    /\ pc = "sc_catch"
    /\ scope' = ScopeAt(idx)
    /\ body' = Append(body, <<" ", " ", " ", " ">> \o lower_statement(func.body[idx], ScopeAt(idx)).text)
    /\ idx' = idx + 1
    /\ pc' = "sc_body"
    /\ UNCHANGED <<ScopeFrame, params>>

ScopeDone ==
    /\ pc = "sc_body" /\ idx > Len(func.body)
    /\ pc' = "sc_done"
    /\ UNCHANGED <<ScopeFrame, idx, scope, params, body>>

NextScope ==
    ScopeBase \/ ScopeParamsBound \/ ScopeStmt \/ ScopeCatch \/ ScopeCatchExit \/ ScopeDone

SpecScope == InitScope /\ [][NextScope]_vars

(***************************************************************************)
(* transpile_to_rust on a unit of one implements block with one method,    *)
(* whose body is one statement: an expression in every statement position. *)
(***************************************************************************)

If(test, cons, has_alt, alt) ==
    [s |-> "if", test |-> test, cons |-> cons, has_alt |-> has_alt, alt |-> alt]

While(test, stmt) == [s |-> "while", test |-> test, body |-> stmt]

NoExpr == [some |-> FALSE]

For(init, test, update, stmt) ==
    [s |-> "for", init |-> init, test |-> test, update |-> update, body |-> stmt]

This == [e |-> "this"]

\* this.x = 1, x.f = 1, v = 1 and a read of this.x
MethodExprs ==
    { AssignMember(This, <<"x">>, Num1),
      AssignMember(Id(<<"v">>), <<"x">>, Num1),
      [e |-> "assign", target |-> [t |-> "ident", name |-> <<"v">>], right |-> Num1],
      Member(This, <<"x">>),
      [e |-> "bin", op |-> <<"+">>, left |-> Num1, right |-> AssignMember(This, <<"x">>, Num1)],
      [e |-> "paren", expr |-> AssignMember(This, <<"x">>, Num1)] }

\* the statements that hold expression x in one position
Positions(x) ==
    { ExprStmt(x),
      Return(x),
      Var("let", <<"a">>, NoType, x),
      ExprStmt(Call(Id(<<"g">>), <<x>>)),
      Block(<<ExprStmt(x)>>),
      Block(<<Block(<<ExprStmt(x)>>)>>),
      If(x, Block(<<>>), FALSE, Block(<<>>)),
      If(Id(<<"c">>), ExprStmt(x), FALSE, Block(<<>>)),
      If(Id(<<"c">>), Block(<<>>), TRUE, Block(<<ExprStmt(x)>>)),
      While(Id(<<"c">>), Block(<<ExprStmt(x)>>)),
      While(x, Block(<<>>)),
      For(NoExpr, NoExpr, NoExpr, Block(<<ExprStmt(x)>>)),
      For([some |-> TRUE, decl |-> Var("let", <<"i">>, NoType, x)], NoExpr, NoExpr, Block(<<>>)),
      For(NoExpr, [some |-> TRUE, expr |-> Id(<<"c">>)], [some |-> TRUE, expr |-> x], Block(<<>>)),
      ForOf(<<"i">>, NoType, Id(<<"x", "s">>), Block(<<ExprStmt(x)>>)),
      Try(<<ExprStmt(x)>>, FALSE, NoParam, <<>>),
      Try(<<>>, TRUE, [some |-> TRUE, name |-> <<"e">>], <<ExprStmt(x)>>),
      [Try(<<>>, FALSE, NoParam, <<>>) EXCEPT !.has_finalizer = TRUE,
                                              !.finalizer = <<ExprStmt(x)>>] }

MethodBodies == UNION {Positions(x) : x \in MethodExprs}

MethodParams == {<<>>, <<[name |-> <<"v">>, type |-> Kw("string")]>>}

MethodClasses ==
    {[kind |-> "class", name |-> <<"P">>,
      methods |-> <<[Fn(<<"f">>, ps, NoType, <<b>>) EXCEPT !.kind = "method"]>>] :
        ps \in MethodParams, b \in MethodBodies}

InitMethod ==
    /\ pc = "items"
    /\ \E c \in MethodClasses : TranspileStart(<<c>>)
    /\ PreIdle /\ FnIdle /\ DetIdle /\ ExtIdle

NextMethod == ItemClass \/ Assemble

SpecMethod == InitMethod /\ [][NextMethod]_vars

(***************************************************************************)
(* transpile_to_rust on a unit of one implements block of one or two       *)
(* methods, each static or not and async or not.                           *)
(***************************************************************************)

ImplMethods ==
    {[Fn(n, <<>>, NoType, b) EXCEPT !.kind = "method", !.is_static = st, !.is_async = as] :
        n \in {<<"m", "a", "k", "e">>, <<"r", "u", "n">>},
        b \in {<<>>, <<ExprStmt(AssignMember(This, <<"x">>, Num1))>>},
        st \in BOOLEAN, as \in BOOLEAN}

ImplClasses ==
    {[kind |-> "class", name |-> <<"Q">>, methods |-> ms] :
        ms \in {<<f>> : f \in ImplMethods}
               \cup {<<f, g>> : f \in {h \in ImplMethods : h.name = <<"m", "a", "k", "e">>},
                                g \in {h \in ImplMethods : h.name = <<"r", "u", "n">>}}}

InitImpl ==
    /\ pc = "items"
    /\ \E c \in ImplClasses : TranspileStart(<<c>>)
    /\ PreIdle /\ FnIdle /\ DetIdle /\ ExtIdle

NextImpl == ItemClass \/ ClassError \/ Assemble

SpecImpl == InitImpl /\ [][NextImpl]_vars

(***************************************************************************)
(* compile_full on a function of one statement, written `wait e` or        *)
(* `await e;`: preprocess, parse_typescript, transpile_to_rust.            *)
(***************************************************************************)

WaitSources ==
    {<<"f", "u", "n", "c", "t", "i", "o", "n", " ", "m", "a", "i", "n", "(", ")", " ", "{", "\n">> \o ind \o <<"w", "a", "i", "t", " ">> \o unparse(e) \o semi \o <<"\n", "}">> :
        ind \in WaitIndents, e \in WaitExprs, semi \in {<<>>, <<";">>, <<";", ";">>}}
    \cup {<<"f", "u", "n", "c", "t", "i", "o", "n", " ", "m", "a", "i", "n", "(", ")", " ", "{", "\n">> \o ind \o <<"a", "w", "a", "i", "t", " ">> \o unparse(e) \o <<";", "\n", "}">> :
        ind \in WaitIndents, e \in WaitExprs}

InitWait ==
    /\ source \in WaitSources
    /\ pc = "warned"
    /\ preprocessed = NoneStr /\ reprocessed = NoneStr
    /\ TranspileIdle /\ FnIdle /\ DetIdle /\ ExtIdle

NextWait == CompilePreprocess \/ CompileParse \/ ItemFn \/ Assemble

SpecWait == InitWait /\ [][NextWait]_vars

(***************************************************************************)
(* A module file with export declarations, given to the bundler of the     *)
(* command line (trusty-cli main.rs, rewrite_export_declarations) and then *)
(* to compile_full, or given to compile_full as it is.                     *)
(***************************************************************************)

ExportBail == [ok |-> FALSE, text |-> <<>>]

\* the line of rewrite_export_declarations: the line without its `export `,
\* or none when what follows is not allowed
rewrite_export_line(line) ==
    LET trimmed == trim_start(line)
        rest == Drop(trimmed, Len(<<"e", "x", "p", "o", "r", "t", " ">>))
        allowed == \/ starts_with(rest, <<"f", "u", "n", "c", "t", "i", "o", "n", " ">>)
                   \/ starts_with(rest, <<"c", "o", "n", "s", "t", " ">>)
                   \/ starts_with(rest, <<"s", "t", "r", "u", "c", "t", " ">>)
                   \/ starts_with(rest, <<"e", "n", "u", "m", " ">>)
                   \/ starts_with(rest, <<"i", "m", "p", "l", "e", "m", "e", "n", "t", "s", " ">>)
    IN IF starts_with(trimmed, <<"e", "x", "p", "o", "r", "t", " ">>)
       THEN IF allowed THEN [ok |-> TRUE, text |-> indent_of(line) \o rest] ELSE ExportBail
       ELSE [ok |-> TRUE, text |-> line]

rewrite_export_declarations(source_text) ==
    LET ls == lines(source_text)
    IN IF \E n \in 1..Len(ls) : ~rewrite_export_line(ls[n]).ok THEN ExportBail
       ELSE [ok |-> TRUE,
             text |-> join([n \in 1..Len(ls) |-> rewrite_export_line(ls[n]).text], <<"\n">>)]

ExportLines ==
    { <<"f", "u", "n", "c", "t", "i", "o", "n", " ", "f", "(", ")", " ", "{", "}">>, <<"l", "e", "t", " ", "y", " ", "=", " ", "1", ";">>,
      <<"e", "x", "p", "o", "r", "t", " ", "f", "u", "n", "c", "t", "i", "o", "n", " ", "f", "(", ")", " ", "{", "}">>, <<" ", " ", "e", "x", "p", "o", "r", "t", " ", "c", "o", "n", "s", "t", " ", "N", " ", "=", " ", "1", ";">>,
      <<"e", "x", "p", "o", "r", "t", " ", "l", "e", "t", " ", "x", " ", "=", " ", "1", ";">>, <<"e", "x", "p", "o", "r", "t", "\t", "l", "e", "t", " ", "x", " ", "=", " ", "1", ";">>, <<"e", "x", "p", "o", "r", "t", " ", "c", "l", "a", "s", "s", " ", "A", " ", "{", "}">>,
      <<"e", "x", "p", "o", "r", "t", " ", "d", "e", "f", "a", "u", "l", "t", " ", "1", ";">>, <<" ", " ", "e", "x", "p", "o", "r", "t", " ", "{", " ", "y", " ", "}", ";">> }

ExportSources ==
    ExportLines \cup {a \o <<"\n">> \o b : a \in ExportLines, b \in ExportLines}

InitExport ==
    /\ source \in ExportSources
    /\ pc \in {"bundle", "start"}
    /\ preprocessed = NoneStr /\ reprocessed = NoneStr
    /\ TranspileIdle /\ FnIdle /\ DetIdle /\ ExtIdle

\* resolve_module_file: rewrite_export_declarations(&body)?, and the text
\* that the command line then hands to the compiler
BundleRewrite ==
    /\ pc = "bundle"
    /\ IF rewrite_export_declarations(source).ok
       THEN /\ source' = rewrite_export_declarations(source).text
            /\ pc' = "start"
            /\ UNCHANGED output
       ELSE /\ output' = Err("Unsupported export syntax")
            /\ pc' = "failed"
            /\ UNCHANGED source
    /\ UNCHANGED <<preprocessed, reprocessed, module, idx, vecVars, fnVars, detVars, extVars>>

NextExport ==
    \/ BundleRewrite \/ CompileValidate \/ CompileWarn \/ CompilePreprocess
    \/ CompileParse \/ ItemFn \/ ItemVar \/ ItemOther \/ Assemble

SpecExport == InitExport /\ [][NextExport]_vars

(***************************************************************************)
(* The generated statement, run.  transpile_statement gives the text of a  *)
(* for or a try statement; its lines are executed with the control flow of *)
(* the target language: `while c {` tests and enters or leaves, `continue;`*)
(* goes back to the test, `break;` leaves the loop, the closure of a try   *)
(* block is called where it is written, `return` inside the closure ends   *)
(* the closure and outside it ends the function.                           *)
(***************************************************************************)

Continue == [s |-> "continue"]

Break == [s |-> "break"]

ReturnNothing == [s |-> "return", has_arg |-> FALSE]

Throw(arg) == [s |-> "throw", arg |-> arg]

NewError(msg) == [e |-> "new", callee |-> Id(<<"E", "r", "r", "o", "r">>), args |-> <<[e |-> "str", value |-> msg]>>]

Work(name) == ExprStmt(Call(Id(name), <<>>))

\* i = i + 1
Step == [e |-> "assign", target |-> [t |-> "ident", name |-> <<"i">>],
         right |-> [e |-> "bin", op |-> <<"+">>, left |-> Id(<<"i">>), right |-> Num1]]

LoopBodies ==
    { <<Work(<<"w", "o", "r", "k">>)>>,
      <<Continue>>,
      <<Work(<<"w", "o", "r", "k">>), Continue>>,
      <<If(Id(<<"c">>), Block(<<Continue>>), FALSE, Block(<<>>)), Work(<<"w", "o", "r", "k">>)>>,
      <<If(Id(<<"c">>), Block(<<Break>>), FALSE, Block(<<>>)), Work(<<"w", "o", "r", "k">>)>>,
      <<Work(<<"w", "o", "r", "k">>), Break>>,
      <<ReturnNothing>> }

ForStmts ==
    {For(init, [some |-> TRUE, expr |-> Id(<<"c">>)], update, Block(b)) :
        init \in {NoExpr, [some |-> TRUE, decl |-> Var("var", <<"i">>, NoType, Num1)]},
        update \in {NoExpr, [some |-> TRUE, expr |-> Step]},
        b \in LoopBodies}

TryBlocks == {<<Work(<<"w", "o", "r", "k">>)>>, <<Throw(NewError(<<"b", "a", "d">>))>>,
              <<Work(<<"w", "o", "r", "k">>), Throw(Id(<<"e">>))>>}

CatchBlocks == {<<Work(<<"h", "a", "n", "d", "l", "e">>)>>, <<ReturnNothing>>, <<Throw(Id(<<"e">>))>>,
                <<Work(<<"h", "a", "n", "d", "l", "e">>), Throw(NewError(<<"w", "o", "r", "s", "e">>))>>}

FinalBlocks == {<<Work(<<"c", "l", "e", "a", "n", "u", "p">>)>>}

TryStmts ==
    {[Try(b, TRUE, [some |-> TRUE, name |-> <<"e">>], h)
        EXCEPT !.has_finalizer = TRUE, !.finalizer = f] :
        b \in TryBlocks, h \in CatchBlocks, f \in FinalBlocks}
    \cup {[Try(b, FALSE, NoParam, <<>>) EXCEPT !.has_finalizer = TRUE, !.finalizer = f] :
        b \in TryBlocks, f \in FinalBlocks}
    \cup {Try(b, TRUE, NoParam, h) : b \in TryBlocks, h \in CatchBlocks}

RunStmts == ForStmts \cup TryStmts

\* the lines of a text, without their indentation
trimmed_lines(text) == [n \in 1..Len(lines(text)) |-> trim_start(lines(text)[n])]

Opens(line) == ends_with(line, <<"{">>)

Closes(line) == starts_with(line, <<"}">>)

IsWhile(line) == starts_with(line, <<"w", "h", "i", "l", "e", " ">>)

IsIf(line) == starts_with(line, <<"i", "f", " ">>) /\ ~starts_with(line, <<"i", "f", " ", "l", "e", "t", " ">>)

IsIfLetErr(line) == starts_with(line, <<"i", "f", " ", "l", "e", "t", " ", "E", "r", "r", "(">>)

IsClosure(line) == starts_with(line, <<"l", "e", "t", " ", "_", "_", "t", "r", "u", "s", "t", "_", "t", "r", "y", "_", "r", "e", "s", "u", "l", "t", ":", " ">>)

IsReturn(line) == starts_with(line, <<"r", "e", "t", "u", "r", "n">>)

IsSimple(line) ==
    /\ ~Opens(line) /\ ~Closes(line) /\ ~IsReturn(line)
    /\ line \notin {<<"c", "o", "n", "t", "i", "n", "u", "e", ";">>, <<"b", "r", "e", "a", "k", ";">>, <<"O", "k", "(", "(", ")", ")">>}

\* the nesting depth after line n, counted from line k
RECURSIVE depth(_, _, _)
depth(ls, k, n) ==
    IF n < k THEN 0
    ELSE depth(ls, k, n - 1) + (IF Opens(ls[n]) THEN 1 ELSE 0) - (IF Closes(ls[n]) THEN 1 ELSE 0)

\* the line that closes the block opened at line k
match_close(ls, k) == MinOf({n \in k..Len(ls) : depth(ls, k, n) = 0})

\* the lines that open a block around line n
Around(ls, n) == {k \in 1..Len(ls) : k < n /\ Opens(ls[k]) /\ match_close(ls, k) > n}

InLoop(ls, n) == \E k \in Around(ls, n) : IsWhile(ls[k])

\* the innermost loop around line n
loop_head(ls, n) == MaxOf({k \in Around(ls, n) : IsWhile(ls[k])})

InClosure(ls, n) == \E k \in Around(ls, n) : IsClosure(ls[k])

closure_head(ls, n) == MaxOf({k \in Around(ls, n) : IsClosure(ls[k])})

InitRun ==
    /\ pc = "lower"
    /\ func \in RunStmts
    /\ PreIdle /\ TranspileIdle /\ DetIdle /\ ExtIdle
    /\ scope = EmptyScope /\ params = <<>> /\ return_type = <<>>
    /\ body = <<>> /\ func_code = <<>>

RunFrame == <<preVars, module, idx, vecVars, output, func, scope, params, return_type,
              func_code, detVars, cliVars>>

\* transpile_statement(stmt, scope), and the text starts to run
RunLower ==
    /\ pc = "lower"
    /\ body' = transpile_statement(func, scope)
    /\ gen_lines' = trimmed_lines(body')
    /\ gen_at' = 1
    /\ pc' = "run"
    /\ UNCHANGED <<RunFrame, gen_log, try_result>>

Running == pc = "run" /\ gen_at <= Len(gen_lines)

Line == gen_lines[gen_at]

Goto(n) == gen_at' = n /\ UNCHANGED <<pc, RunFrame, body, gen_lines>>

\* `while c {`: the test is evaluated, and holds or not
RunTest ==
    /\ Running /\ IsWhile(Line)
    /\ gen_log' = <<>>
    /\ \/ Goto(gen_at + 1)
       \/ Goto(match_close(gen_lines, gen_at) + 1)
    /\ UNCHANGED try_result

\* `if c {`
RunIf ==
    /\ Running /\ IsIf(Line)
    /\ \/ Goto(gen_at + 1)
       \/ Goto(match_close(gen_lines, gen_at) + 1)
    /\ UNCHANGED <<gen_log, try_result>>

\* a statement without control flow, and the opening of a block
RunSimple ==
    /\ Running /\ (IsSimple(Line) \/ Line = <<"{">>)
    /\ gen_log' = Append(gen_log, Line)
    /\ Goto(gen_at + 1)
    /\ UNCHANGED try_result

RunContinue ==
    /\ Running /\ Line = <<"c", "o", "n", "t", "i", "n", "u", "e", ";">> /\ InLoop(gen_lines, gen_at)
    /\ Goto(loop_head(gen_lines, gen_at))
    /\ UNCHANGED <<gen_log, try_result>>

RunBreak ==
    /\ Running /\ Line = <<"b", "r", "e", "a", "k", ";">> /\ InLoop(gen_lines, gen_at)
    /\ Goto(match_close(gen_lines, loop_head(gen_lines, gen_at)) + 1)
    /\ UNCHANGED <<gen_log, try_result>>

\* `}`: the end of a loop body goes back to the test, the end of another
\* block goes on; `})();` is the end of the closure
RunClose ==
    /\ Running /\ Closes(Line)
    /\ LET open == CHOOSE k \in 1..gen_at : match_close(gen_lines, k) = gen_at /\ Opens(gen_lines[k])
       IN IF IsWhile(gen_lines[open]) THEN Goto(open) ELSE Goto(gen_at + 1)
    /\ UNCHANGED <<gen_log, try_result>>

\* `let __trust_try_result: Result<(), String> = (|| ... {`: the closure is
\* called
RunClosure ==
    /\ Running /\ IsClosure(Line)
    /\ Goto(gen_at + 1)
    /\ UNCHANGED <<gen_log, try_result>>

\* `Ok(())`: the value of the closure
RunOk ==
    /\ Running /\ Line = <<"O", "k", "(", "(", ")", ")">>
    /\ try_result' = "ok"
    /\ Goto(gen_at + 1)
    /\ UNCHANGED gen_log

\* `return ...;` inside the closure: the value of the closure
RunClosureReturn ==
    /\ Running /\ IsReturn(Line) /\ InClosure(gen_lines, gen_at)
    /\ try_result' = IF starts_with(Line, <<"r", "e", "t", "u", "r", "n", " ", "E", "r", "r", "(">>) THEN "err" ELSE "ok"
    /\ Goto(match_close(gen_lines, closure_head(gen_lines, gen_at)))
    /\ UNCHANGED gen_log

\* `return ...;` outside the closure: the function returns
RunReturn ==
    /\ Running /\ IsReturn(Line) /\ ~InClosure(gen_lines, gen_at)
    /\ pc' = "returned"
    /\ UNCHANGED <<RunFrame, body, runVars>>

\* `if let Err(e) = __trust_try_result {`
RunIfLetErr ==
    /\ Running /\ IsIfLetErr(Line)
    /\ IF try_result = "err" THEN Goto(gen_at + 1)
       ELSE Goto(match_close(gen_lines, gen_at) + 1)
    /\ UNCHANGED <<gen_log, try_result>>

\* the statement is left at its end
RunEnd ==
    /\ pc = "run" /\ gen_at > Len(gen_lines)
    /\ pc' = "ended"
    /\ UNCHANGED <<RunFrame, body, runVars>>

NextRun ==
    \/ RunLower \/ RunTest \/ RunIf \/ RunSimple \/ RunContinue \/ RunBreak \/ RunClose
    \/ RunClosure \/ RunOk \/ RunClosureReturn \/ RunReturn \/ RunIfLetErr \/ RunEnd

SpecRun == InitRun /\ [][NextRun]_vars

(***************************************************************************)
(* transpile_statement on an assignment statement: every operator, on an   *)
(* identifier, a member and a computed member, the receiver unbound or     *)
(* bound to a shared cell.                                                 *)
(***************************************************************************)

AssignOps == {<<"=">>, <<"+", "=">>, <<"-", "=">>, <<"*", "=">>}

AssignTargets ==
    { [t |-> "ident", name |-> <<"x">>],
      [t |-> "member", obj |-> Id(<<"a">>), computed |-> FALSE, prop |-> <<"n">>],
      [t |-> "member", obj |-> This, computed |-> FALSE, prop |-> <<"n">>],
      [t |-> "member", obj |-> Id(<<"a">>), computed |-> TRUE, prop |-> <<>>, index |-> Id(<<"i">>)],
      [t |-> "member", obj |-> Id(<<"a">>), computed |-> TRUE, prop |-> <<>>, index |-> Num1] }

AssignValues == {Num1, Id(<<"v">>)}

AssignScopes ==
    { EmptyScope,
      scope_insert(EmptyScope, <<"a">>, <<"R", "c", "<", "R", "e", "f", "C", "e", "l", "l", "<", "V", "e", "c", "<", "i", "3", "2", ">", ">", ">">>),
      scope_insert(EmptyScope, <<"a">>, <<"A", "r", "c", "<", "M", "u", "t", "e", "x", "<", "V", "e", "c", "<", "i", "3", "2", ">", ">", ">">>) }

AssignStmts ==
    {ExprStmt([e |-> "assign", op |-> op, target |-> target, right |-> v]) :
        op \in AssignOps, target \in AssignTargets, v \in AssignValues}

InitAssign ==
    /\ pc = "stmt"
    /\ func \in AssignStmts
    /\ scope \in AssignScopes
    /\ PreIdle /\ TranspileIdle /\ DetIdle /\ ExtIdle
    /\ params = <<>> /\ return_type = <<>> /\ body = <<>> /\ func_code = <<>>

StmtFrame == <<preVars, module, idx, vecVars, output, func, params, return_type, func_code,
                detVars, extVars>>

\* transpile_statement(stmt, scope): the text returned and the scope left
LowerStmt ==
    /\ pc = "stmt"
    /\ body' = transpile_statement(func, scope)
    /\ scope' = lower_statement(func, scope).scope
    /\ pc' = "lowered"
    /\ UNCHANGED StmtFrame

NextAssign == LowerStmt

SpecAssign == InitAssign /\ [][NextAssign]_vars

(***************************************************************************)
(* transpile_statement on a local declaration of one declarator: with and  *)
(* without annotation, with and without initialiser, the initialiser a     *)
(* bare identifier bound or not to a shared cell.                          *)
(***************************************************************************)

PointerP == Ref(<<"P", "o", "i", "n", "t", "e", "r">>, <<Ref(<<"P">>, <<>>)>>)

ThreadedP == Ref(<<"T", "h", "r", "e", "a", "d", "e", "d">>, <<Ref(<<"P">>, <<>>)>>)

DeclTypes == {NoType, Kw("string"), Ref(<<"i", "n", "t", "3", "2">>, <<>>), Ref(<<"P">>, <<>>), PointerP, ThreadedP}

DeclInits == {Id(<<"p">>), Id(<<"v">>), Num1}

Declarators ==
    {[name |-> <<"q">>, type |-> ty, has_init |-> TRUE, init |-> init] :
        ty \in DeclTypes, init \in DeclInits}
    \cup {[name |-> <<"q">>, type |-> ty, has_init |-> FALSE, init |-> Num1] : ty \in DeclTypes}

DeclStmts ==
    {[s |-> "var", var_kind |-> k, decls |-> <<d>>] : k \in {"let", "var"}, d \in Declarators}

DeclScopes ==
    { EmptyScope,
      scope_insert(EmptyScope, <<"p">>, transpile_type_annotation(PointerP)),
      scope_insert(EmptyScope, <<"p">>, transpile_type_annotation(ThreadedP)),
      scope_insert(EmptyScope, <<"p">>, <<"S", "t", "r", "i", "n", "g">>) }

InitDecl ==
    /\ pc = "stmt"
    /\ func \in DeclStmts
    /\ scope \in DeclScopes
    /\ PreIdle /\ TranspileIdle /\ DetIdle /\ ExtIdle
    /\ params = <<>> /\ return_type = <<>> /\ body = <<>> /\ func_code = <<>>

NextDecl == LowerStmt

SpecDecl == InitDecl /\ [][NextDecl]_vars

(***************************************************************************)
(* transpile_to_rust on a unit of one top-level variable declaration.      *)
(***************************************************************************)

Str(value) == [e |-> "str", value |-> value]

Num(text) == [e |-> "num", text |-> text]

Minus(arg) == [e |-> "unary", op |-> <<"-">>, arg |-> arg]

ConstTypes == {NoType, Kw("string"), Ref(<<"i", "n", "t", "3", "2">>, <<>>), Ref(<<"f", "l", "o", "a", "t", "6", "4">>, <<>>), Kw("boolean")}

ConstInits ==
    { Str(<<"T", "R", "U", "S", "T">>), Str(<<>>), Num(<<"1", "0">>), Num(<<"1", ".", "5">>), [e |-> "bool", text |-> <<"t", "r", "u", "e">>],
      Minus(Num(<<"1", "0">>)), Minus(Minus(Num(<<"1">>))),
      [e |-> "unary", op |-> <<"!">>, arg |-> [e |-> "bool", text |-> <<"t", "r", "u", "e">>]],
      Id(<<"O", "T", "H", "E", "R">>) }

ConstItems ==
    {[kind |-> "var", var_kind |-> k,
      decls |-> <<[name |-> <<"N">>, type |-> ty, has_init |-> TRUE, init |-> init]>>] :
        k \in {"const", "let"}, ty \in ConstTypes, init \in ConstInits}
    \cup {[kind |-> "var", var_kind |-> "const",
           decls |-> <<[name |-> <<"N">>, type |-> ty, has_init |-> FALSE, init |-> Num1]>>] :
        ty \in ConstTypes}

InitConst ==
    /\ pc = "items"
    /\ \E c \in ConstItems : TranspileStart(<<c>>)
    /\ PreIdle /\ FnIdle /\ DetIdle /\ ExtIdle

NextConst == ItemVar \/ Assemble

SpecConst == InitConst /\ [][NextConst]_vars

(***************************************************************************)
(* The match rewrite on its own: preprocess applied to sources of one or   *)
(* two `match (x) { ... }` expressions whose arms are taken, in any order, *)
(* from a value arm, a list arm and the default arm.                       *)
(***************************************************************************)

MaxArms == 3

MaxMatches == 2

\* one arm `pattern => result`
Arm(pattern, result) == [pattern |-> pattern, result |-> result]

ValueArm == Arm(<<"1">>, <<"a">>)

ListArm == Arm(<<"[", "2", ",", " ", "3", "]">>, <<"b">>)

DefaultArm == Arm(<<"d", "e", "f", "a", "u", "l", "t">>, <<"c">>)

MatchArms == {ValueArm, ListArm, DefaultArm}

\* the arm lists of a match: distinct arms, in any order
ArmLists ==
    UNION {{arms \in [1..n -> MatchArms] : \A i, j \in 1..n : arms[i] = arms[j] => i = j}
           : n \in 1..MaxArms}

\* the matches of one source, in source order
MatchPrograms == UNION {[1..n -> ArmLists] : n \in 1..MaxMatches}

RECURSIVE arms_text(_, _)
arms_text(arms, n) ==
    IF n > Len(arms) THEN <<>>
    ELSE (IF n = 1 THEN <<>> ELSE <<",", " ">>)
         \o arms[n].pattern \o <<" ", "=", ">", " ">> \o arms[n].result \o arms_text(arms, n + 1)

\* the text of `match (x) { P1 => R1, ..., Pn => Rn }`
match_text(arms) == <<"m", "a", "t", "c", "h", " ", "(", "x", ")", " ", "{", " ">> \o arms_text(arms, 1) \o <<" ", "}">>

RECURSIVE program_text(_, _)
program_text(prog, n) ==
    IF n > Len(prog) THEN <<>>
    ELSE (IF n = 1 THEN <<>> ELSE <<";", "\n">>) \o match_text(prog[n]) \o program_text(prog, n + 1)

MatchSources == {program_text(prog, 1) : prog \in MatchPrograms}

\* compile() called on a source of matches
InitMatch ==
    /\ source \in MatchSources
    /\ pc = "start"
    /\ preprocessed = NoneStr
    /\ reprocessed = NoneStr
    /\ TranspileIdle /\ FnIdle /\ DetIdle /\ ExtIdle

NextMatch == CompileValidate \/ CompileWarn \/ CompilePreprocess

SpecMatch == InitMatch /\ [][NextMatch]_vars

(***************************************************************************)
(* trusty-cli main.rs: the bundler of local modules.  The files of one     *)
(* directory import each other by lines `import ... from "./x";`; the      *)
(* recursion of resolve_module_file is run one call, one import line and   *)
(* one return at a time.                                                   *)
(***************************************************************************)

MaxLines == 2

\* the canonical paths of the files that exist
ModulePaths == { <<"m", "a", "i", "n", ".", "t", "r", "s">>, <<"a", ".", "t", "r", "s">>, <<"b", ".", "t", "r", "s">> }

EntryPath == <<"m", "a", "i", "n", ".", "t", "r", "s">>

FileLines ==
    { <<"i", "m", "p", "o", "r", "t", " ", "{", " ", "a", " ", "}", " ", "f", "r", "o", "m", " ", "\"", ".", "/", "a", "\"", ";">>, <<"i", "m", "p", "o", "r", "t", " ", "{", " ", "b", " ", "}", " ", "f", "r", "o", "m", " ", "'", ".", "/", "b", ".", "t", "r", "s", "'", ";">>,
      <<" ", " ", "i", "m", "p", "o", "r", "t", " ", "{", " ", "m", " ", "}", " ", "f", "r", "o", "m", " ", "\"", ".", "/", "m", "a", "i", "n", "\"", ";">>, <<"i", "m", "p", "o", "r", "t", " ", "{", " ", "g", " ", "}", " ", "f", "r", "o", "m", " ", "\"", ".", "/", "g", "o", "n", "e", "\"", ";">>,
      <<"e", "x", "p", "o", "r", "t", " ", "l", "e", "t", " ", "x", " ", "=", " ", "1", ";">> }

FileTexts ==
    {<<>>} \cup FileLines \cup {x \o <<"\n">> \o y : x \in FileLines, y \in FileLines}

\* str::find(pat): the index of the first occurrence, 0 when there is none
str_find(s, pat) ==
    LET hits == {i \in 1..(Len(s) - Len(pat) + 1) : SubSeq(s, i, i + Len(pat) - 1) = pat}
    IN IF hits = {} THEN 0 ELSE MinOf(hits)

parse_local_import_path(line) ==
    LET trimmed == trim(line)
        from_idx == str_find(trimmed, <<" ", "f", "r", "o", "m", " ">>)
        after_from == trim(Drop(trimmed, from_idx + Len(<<" ", "f", "r", "o", "m", " ">>) - 1))
        quote == Head(after_from)
        rest == Tail(after_from)
        end == str_find(rest, <<quote>>)
        path == Take(rest, end - 1)
    IN IF ~starts_with(trimmed, <<"i", "m", "p", "o", "r", "t", " ">>) THEN NoneStr
       ELSE IF from_idx = 0 THEN NoneStr
       ELSE IF after_from = <<>> THEN NoneStr
       ELSE IF quote # "\"" /\ quote # "'" THEN NoneStr
       ELSE IF end = 0 THEN NoneStr
       ELSE IF starts_with(path, <<".", "/">>) \/ starts_with(path, <<".", ".", "/">>) THEN SomeStr(path)
       ELSE NoneStr

\* Path::canonicalize of a path of the directory: without its `./`
RECURSIVE canonicalize(_)
canonicalize(path) ==
    IF starts_with(path, <<".", "/">>) THEN canonicalize(Drop(path, 2)) ELSE path

\* Path::exists
exists(path) == canonicalize(path) \in ModulePaths

\* Path::extension().is_none(): the file name has no dot after its first character
extension_is_none(path) ==
    LET slashes == {i \in 1..Len(path) : path[i] = "/"}
        name == IF slashes = {} THEN path ELSE Drop(path, MaxOf(slashes))
    IN ~\E i \in 2..Len(name) : name[i] = "."

\* Path::with_extension("trs") of a path without extension
with_extension(path) == path \o <<".", "t", "r", "s">>

\* the file an import path names: the first of the tries that exists, or none
resolve_local_import_target(import_path) ==
    LET candidate == import_path
        tries == IF extension_is_none(candidate)
                 THEN <<candidate, with_extension(candidate), candidate \o <<"/", "i", "n", "d", "e", "x", ".", "t", "r", "s">>>>
                 ELSE <<candidate>>
        found == {n \in 1..Len(tries) : exists(tries[n])}
    IN IF found = {} THEN NoneStr ELSE SomeStr(tries[MinOf(found)])

\* The values of the functions above on the files at hand: the lines of each
\* text, the local import path of each line, the file each import names, and
\* the rewritten body of each text.
LinesOf == [text \in FileTexts |-> lines(text)]

LocalImport == [line \in FileLines |-> parse_local_import_path(line)]

ImportTarget ==
    [line \in FileLines |->
        IF LocalImport[line].some THEN resolve_local_import_target(LocalImport[line].val)
        ELSE NoneStr]

\* a loop over the lines that takes no line for a local import
C29_NoImports(ls, n) == 0

\* the index of the first line at or after n that is a local import, 0 when
\* there is none
next_import(ls, n) ==
    LET hits == {k \in n..Len(ls) : LocalImport[ls[k]].some}
    IN IF hits = {} THEN 0 ELSE MinOf(hits)

\* body_lines.join("\n"): the lines that are not local imports
body_of(ls) ==
    LET kept == SelectSeq(ls, LAMBDA line : ~LocalImport[line].some)
    IN join(kept, <<"\n">>)

\* rewrite_export_declarations(&body) of each text
RewrittenBody == [text \in FileTexts |-> rewrite_export_declarations(body_of(LinesOf[text]))]

\* format!("// --- module: {} ---\n", canonical.display())
module_header(canonical) == <<"/", "/", " ", "-", "-", "-", " ", "m", "o", "d", "u", "l", "e", ":", " ">> \o canonical \o <<" ", "-", "-", "-", "\n">>

\* resolve_and_bundle_modules(entry): the entry is canonical, seen and stack
\* are empty, resolve_module_file is about to be called
InitBundle ==
    /\ pc = "cli"
    /\ cli_pc = "resolve"
    /\ files \in [ModulePaths -> FileTexts]
    /\ dep_file = EntryPath
    /\ seen = {} /\ stack = <<>> /\ frames = <<>>
    /\ child = <<>> /\ bundle = NoBundle
    /\ BuildIdle
    /\ PreIdle /\ TranspileIdle /\ FnIdle /\ DetIdle /\ RunIdle

BundleFrame == <<pc, preVars, module, idx, vecVars, output, fnVars, detVars, runVars,
                 buildVars, files>>

InStack(path) == \E n \in 1..Len(stack) : stack[n] = path

\* resolve_module_file: from the call to stack.push
ResolveEnter ==
    /\ cli_pc = "resolve"
    /\ LET canonical == canonicalize(dep_file)
       IN IF canonical \in seen THEN
              /\ child' = <<>>
              /\ cli_pc' = "return"
              /\ UNCHANGED <<stack, frames, bundle>>
          ELSE IF InStack(canonical) THEN
              /\ bundle' = BundleErr("Circular local import detected")
              /\ cli_pc' = "failed"
              /\ UNCHANGED <<stack, frames, child>>
          ELSE
              /\ stack' = Append(stack, canonical)
              /\ frames' = Append(frames, [file |-> canonical, line |-> 1, dep_code |-> <<>>])
              /\ cli_pc' = "lines"
              /\ UNCHANGED <<child, bundle>>
    /\ UNCHANGED <<BundleFrame, seen, dep_file>>

\* resolve_module_file: the loop over the lines, up to the next local import
\* and the recursive call for it
ResolveImport ==
    /\ cli_pc = "lines"
    /\ LET top == frames[Len(frames)]
           ls == LinesOf[files[top.file]]
           n == next_import(ls, top.line)
           target == ImportTarget[ls[n]]
       IN /\ n # 0
          /\ IF target.some THEN
                 /\ dep_file' = target.val
                 /\ frames' = [frames EXCEPT ![Len(frames)].line = n + 1]
                 /\ cli_pc' = "resolve"
                 /\ UNCHANGED bundle
             ELSE
                 /\ bundle' = BundleErr("Cannot resolve local import")
                 /\ cli_pc' = "failed"
                 /\ UNCHANGED <<dep_file, frames>>
    /\ UNCHANGED <<BundleFrame, seen, stack, child>>

\* resolve_module_file: after the loop, from rewrite_export_declarations to
\* the return of the module's text
ResolveFinish ==
    /\ cli_pc = "lines"
    /\ LET top == frames[Len(frames)]
           ls == LinesOf[files[top.file]]
           rewritten == RewrittenBody[files[top.file]]
       IN /\ next_import(ls, top.line) = 0
          /\ IF rewritten.ok THEN
                 /\ stack' = Take(stack, Len(stack) - 1)
                 /\ seen' = seen \cup {top.file}
                 /\ child' = top.dep_code \o module_header(top.file) \o rewritten.text \o <<"\n">>
                 /\ frames' = Take(frames, Len(frames) - 1)
                 /\ cli_pc' = "return"
                 /\ UNCHANGED bundle
             ELSE
                 /\ bundle' = BundleErr("Unsupported export syntax")
                 /\ cli_pc' = "failed"
                 /\ UNCHANGED <<stack, seen, child, frames>>
    /\ UNCHANGED <<BundleFrame, dep_file>>

\* the value of a call arrives: in the caller's dep_code, or as the result of
\* resolve_and_bundle_modules
ResolveReturn ==
    /\ cli_pc = "return"
    /\ IF frames = <<>> THEN
           /\ bundle' = Bundled(child)
           /\ cli_pc' = "bundled"
           /\ UNCHANGED frames
       ELSE
           /\ frames' = [frames EXCEPT ![Len(frames)].dep_code =
                             IF trim(child) = <<>> THEN @
                             ELSE IF ends_with(@ \o child, <<"\n">>) THEN @ \o child
                             ELSE @ \o child \o <<"\n">>]
           /\ cli_pc' = "lines"
           /\ UNCHANGED bundle
    /\ UNCHANGED <<BundleFrame, seen, stack, dep_file, child>>

NextBundle == ResolveEnter \/ ResolveImport \/ ResolveFinish \/ ResolveReturn

\* the bundler runs on: a call, a line or a return that can happen does
SpecBundle == InitBundle /\ [][NextBundle]_vars /\ WF_vars(NextBundle)

(***************************************************************************)
(* trusty-cli main.rs: `trusty run <file>`, that is run_file, build_file   *)
(* with compile = true and no output path, and the two compilers.  The     *)
(* build directory may hold files of an earlier invocation; the option     *)
(* --release changes the compiler's arguments and nothing else here.       *)
(***************************************************************************)

\* the binary of a path: none, the one of an earlier invocation, the one of
\* this invocation
BinStates == {"absent", "stale", "fresh"}

\* what running rustc or cargo does: it cannot be started, it reports
\* success, it reports failure
ToolOutcomes == {"unavailable", "success", "failure"}

BundleOutcomes == {Bundled(<<"f", "u", "n", "c", "t", "i", "o", "n", " ", "m", "a", "i", "n", "(", ")", " ", "{", "}", "\n">>), BundleErr("Circular local import detected")}

TranspileOutcomes ==
    { Ok(<<"f", "n", " ", "m", "a", "i", "n", "(", ")", " ", "{", "\n", "}", "\n">>, <<>>), Ok(<<"f", "n", " ", "m", "a", "i", "n", "(", ")", " ", "{", "\n", "}", "\n">>, <<"rand">>),
      Err("while is not supported") }

\* run_file(input, release) is called
InitBuild ==
    /\ pc = "cli"
    /\ cli_pc = "run"
    /\ build_files \in [rs : BOOLEAN, bin : {"absent", "stale"}, cargo_bin : {"absent", "stale"}]
    /\ tool \in ToolOutcomes
    /\ spawned = "none" /\ cli_result = "none"
    /\ BundleIdle
    /\ PreIdle /\ TranspileIdle /\ FnIdle /\ DetIdle /\ RunIdle

BuildFrame == <<pc, preVars, module, idx, vecVars, fnVars, calls, first_output, runVars,
                files, seen, stack, frames, dep_file, child, tool>>

\* build_file: let source = resolve_and_bundle_modules(input)?;
BuildBundle ==
    /\ cli_pc = "run"
    /\ \E outcome \in BundleOutcomes :
        /\ bundle' = outcome
        /\ IF outcome.status = "ok"
           THEN cli_pc' = "transpile" /\ UNCHANGED cli_result
           ELSE cli_pc' = "done" /\ cli_result' = "err"
    /\ UNCHANGED <<BuildFrame, output, stderr, build_files, spawned>>

\* build_file: let transpile_output = trusty_compiler::compile_full(&source)?;
BuildTranspile ==
    /\ cli_pc = "transpile"
    /\ \E outcome \in TranspileOutcomes :
        /\ output' = outcome
        /\ IF outcome.status = "ok"
           THEN cli_pc' = "write" /\ UNCHANGED cli_result
           ELSE cli_pc' = "done" /\ cli_result' = "err"
    /\ UNCHANGED <<BuildFrame, bundle, stderr, build_files, spawned>>

\* build_file: the .rs file is written into build/, and the compiler is chosen
BuildWriteRs ==
    /\ cli_pc = "write"
    /\ build_files' = [build_files EXCEPT !.rs = TRUE]
    /\ cli_pc' = IF output.required_crates = <<>> THEN "rustc" ELSE "cargo"
    /\ UNCHANGED <<BuildFrame, bundle, output, stderr, spawned, cli_result>>

\* compile_with_rustc(&rs_path, &bin_path, release)?: a failure is printed and
\* Ok(()) is returned; a failed rustc leaves the binary of the path or
\* removes it
CompileWithRustc ==
    /\ cli_pc = "rustc"
    /\ \/ /\ tool = "unavailable"
          /\ cli_pc' = "done" /\ cli_result' = "err"
          /\ UNCHANGED <<build_files, stderr>>
       \/ /\ tool = "success"
          /\ build_files' = [build_files EXCEPT !.bin = "fresh"]
          /\ cli_pc' = "compiled"
          /\ UNCHANGED <<stderr, cli_result>>
       \/ /\ tool = "failure"
          /\ \E left \in {build_files.bin, "absent"} :
                build_files' = [build_files EXCEPT !.bin = left]
          /\ stderr' = Append(stderr, "Compilation failed:")
          /\ cli_pc' = "compiled"
          /\ UNCHANGED cli_result
    /\ UNCHANGED <<BuildFrame, bundle, output, spawned>>

\* compile_with_cargo(...)?: the cargo project is written and built; a failure
\* is printed and Ok(()) is returned before the copy to bin_path
CompileWithCargo ==
    /\ cli_pc = "cargo"
    /\ \/ /\ tool = "unavailable"
          /\ cli_pc' = "done" /\ cli_result' = "err"
          /\ UNCHANGED <<build_files, stderr>>
       \/ /\ tool = "success"
          /\ build_files' = [build_files EXCEPT !.cargo_bin = "fresh", !.bin = "fresh"]
          /\ cli_pc' = "compiled"
          /\ UNCHANGED <<stderr, cli_result>>
       \/ /\ tool = "failure"
          /\ \E left \in {build_files.cargo_bin, "absent"} :
                build_files' = [build_files EXCEPT !.cargo_bin = left]
          /\ stderr' = Append(stderr, "Compilation failed:")
          /\ cli_pc' = "compiled"
          /\ UNCHANGED cli_result
    /\ UNCHANGED <<BuildFrame, bundle, output, spawned>>

\* build_file: fs::remove_file(&rs_path).ok(); Ok(bin_path)
BuildFinish ==
    /\ cli_pc = "compiled"
    /\ build_files' = [build_files EXCEPT !.rs = FALSE]
    /\ cli_pc' = "spawn"
    /\ UNCHANGED <<BuildFrame, bundle, output, stderr, spawned, cli_result>>

\* run_file: Command::new(&bin_path).spawn()?.wait()?; Ok(())
RunSpawn ==
    /\ cli_pc = "spawn"
    /\ IF build_files.bin = "absent"
       THEN spawned' = "none" /\ cli_result' = "err"
       ELSE spawned' = build_files.bin /\ cli_result' = "ok"
    /\ cli_pc' = "done"
    /\ UNCHANGED <<BuildFrame, bundle, output, stderr, build_files>>

NextBuild ==
    \/ BuildBundle \/ BuildTranspile \/ BuildWriteRs \/ CompileWithRustc
    \/ CompileWithCargo \/ BuildFinish \/ RunSpawn

SpecBuild == InitBuild /\ [][NextBuild]_vars

(***************************************************************************)
(* The lexical structure of a TRUST source, for stating the claims about   *)
(* the text pipeline: quoted literals with backslash escapes, line         *)
(* comments up to the end of the line, block comments up to "*/".          *)
(***************************************************************************)

\* One character (or escape pair) of the scan, from
\* st = [i, mode, start, code, segs]: `code` is the set of indices in code
\* position, `segs` the closed literals and comments as <<first, last>>.
lex_step(chars, st) ==
    LET i == st.i
        c == chars[i]
        next == next_char(chars, i)
        closing == CASE st.mode = "SingleString" -> "'"
                     [] st.mode = "DoubleString" -> "\""
                     [] OTHER -> Backtick
    IN
    IF st.mode = "Normal" THEN
        IF c = "/" /\ next = "/" THEN [st EXCEPT !.i = i + 2, !.mode = "LineComment", !.start = i]
        ELSE IF c = "/" /\ next = "*" THEN [st EXCEPT !.i = i + 2, !.mode = "BlockComment", !.start = i]
        ELSE IF c = "'" THEN [st EXCEPT !.i = i + 1, !.mode = "SingleString", !.start = i]
        ELSE IF c = "\"" THEN [st EXCEPT !.i = i + 1, !.mode = "DoubleString", !.start = i]
        ELSE IF c = Backtick THEN [st EXCEPT !.i = i + 1, !.mode = "TemplateString", !.start = i]
        ELSE [st EXCEPT !.i = i + 1, !.code = @ \cup {i}]
    ELSE IF st.mode = "LineComment" THEN
        IF c = "\n"
        THEN [st EXCEPT !.i = i + 1, !.mode = "Normal", !.code = @ \cup {i},
                        !.segs = Append(@, <<st.start, i - 1>>)]
        ELSE IF i = Len(chars)
        THEN [st EXCEPT !.i = i + 1, !.segs = Append(@, <<st.start, i>>)]
        ELSE [st EXCEPT !.i = i + 1]
    ELSE IF st.mode = "BlockComment" THEN
        IF c = "*" /\ next = "/"
        THEN [st EXCEPT !.i = i + 2, !.mode = "Normal", !.segs = Append(@, <<st.start, i + 1>>)]
        ELSE [st EXCEPT !.i = i + 1]
    ELSE IF c = "\\" /\ next # NoChar THEN [st EXCEPT !.i = i + 2]
    ELSE IF c = closing
    THEN [st EXCEPT !.i = i + 1, !.mode = "Normal", !.segs = Append(@, <<st.start, i>>)]
    ELSE [st EXCEPT !.i = i + 1]

RECURSIVE lex_loop(_, _, _)
lex_loop(chars, st, fuel) ==
    IF st.i > Len(chars) THEN st
    ELSE IF fuel <= 1 THEN lex_step(chars, st)
    ELSE lex_loop(chars, lex_loop(chars, st, fuel \div 2), fuel - (fuel \div 2))

Lex(chars) ==
    lex_loop(chars, [i |-> 1, mode |-> "Normal", start |-> 1, code |-> {}, segs |-> <<>>],
             Len(chars))

\* The whole-word identifier `while` stands in code position: its five
\* letters are consecutive code characters with no identifier character
\* before or after.
HasWhileInCode(chars) ==
    LET code == Lex(chars).code
    IN \E i \in 1..(Len(chars) - 4) :
          /\ SubSeq(chars, i, i + 4) = kw_while
          /\ \A k \in i..(i + 4) : k \in code
          /\ (i = 1 \/ ~is_ident_char(chars[i - 1]))
          /\ (i + 5 > Len(chars) \/ ~is_ident_char(chars[i + 5]))

\* The closed literals and comments of a text, as texts.
LiteralsAndComments(chars) ==
    LET segs == Lex(chars).segs
    IN {SubSeq(chars, segs[k][1], segs[k][2]) : k \in 1..Len(segs)}

(***************************************************************************)
(* Claims about the text pipeline (checked under SpecPre).                 *)
(***************************************************************************)

\* C1: once preprocess has produced a text, every closed string literal,
\* template literal and comment of the source occurs unchanged in it.
C1_LiteralsUntouched ==
    (pc \in {"preprocessed", "reprocessed"}) =>
        \A lit \in LiteralsAndComments(source) : Occurs(lit, preprocessed.val)

\* C1, the case: preprocess has run on a source that holds the words
\* `struct ` inside a closed string literal, and the literal is gone from
\* the preprocessed text.
C1_Witness ==
    /\ pc = "preprocessed"
    /\ \E lit \in LiteralsAndComments(source) :
          /\ lit[1] = "\""
          /\ Occurs(<<"s", "t", "r", "u", "c", "t", " ">>, lit)
          /\ ~Occurs(lit, preprocessed.val)

\* C2: compile_full stops with the `while` error exactly when the source has
\* the whole-word identifier `while` in code position.
C2_RejectIffWhileInCode ==
    (pc # "start") => ((pc = "rejected") <=> HasWhileInCode(source))

\* C2, the case: a source whose letters w-h and i-l-e are separated by a
\* closed literal or comment, with no `while` in code position, has been
\* rejected.
C2_Witness ==
    /\ pc = "rejected"
    /\ ~HasWhileInCode(source)
    /\ Occurs(<<"w", "h">>, source)
    /\ Occurs(<<"i", "l", "e">>, source)
    /\ LiteralsAndComments(source) # {}

\* C9: preprocessing the preprocessed text again leaves it unchanged.
C9_Idempotent ==
    (pc = "reprocessed") => (reprocessed = preprocessed)

\* C9, the case: preprocess has been applied twice to a source with a match
\* nested in a match arm, and the second pass rewrote the text again.
C9_Witness ==
    /\ pc = "reprocessed"
    /\ Occurs(<<"m", "a", "t", "c", "h", " ", "(", "y", ")">>, preprocessed.val)
    /\ reprocessed.some
    /\ reprocessed # preprocessed

(***************************************************************************)
(* Reading the assembled output.                                           *)
(***************************************************************************)

\* the lines of the output that are `use <path>;` statements, leading blanks
\* removed
UseLines(text) ==
    {l \in {trim_start(lines(text)[k]) : k \in 1..Len(lines(text))} :
        starts_with(l, <<"u", "s", "e", " ">>) /\ ends_with(l, <<";">>)}

\* the top-level path segment of a use line: the identifier after `use `
TopSegment(use_line) ==
    LET path == Drop(use_line, 4)
        stops == {i \in 1..Len(path) : ~is_ident_char(path[i])}
    IN Take(path, MinOf(stops) - 1)

\* the names of the modules that the output itself declares (`mod <name> {`)
DeclaredModules(text) ==
    {SubSeq(l, 5, Len(l) - 2) :
        l \in {lines(text)[k] : k \in {n \in 1..Len(lines(text)) :
                   starts_with(lines(text)[n], <<"m", "o", "d", " ">>) /\ ends_with(lines(text)[n], <<" ", "{">>)}}}

StdRoots == {<<"s", "t", "d">>, <<"c", "o", "r", "e">>, <<"a", "l", "l", "o", "c">>}

CrateSet == {output.required_crates[k] : k \in 1..Len(output.required_crates)}

(***************************************************************************)
(* Claims about transpile_to_rust (checked under Spec).                    *)
(***************************************************************************)

\* C4 (as stated): in the output of an accepted source, every `use <path>;`
\* line whose top-level segment is not std, core or alloc has that segment in
\* required_crates.
C4_CrateSetClosure ==
    (pc = "done") =>
        \A l \in UseLines(output.rust_code) :
            TopSegment(l) \notin StdRoots => TopSegment(l) \in CrateSet

\* C4 (amended): the closure holds for every use line whose top-level segment
\* is neither std, core, alloc nor a module declared in the output itself.
C4_CrateSetClosureAmended ==
    (pc = "done") =>
        \A l \in UseLines(output.rust_code) :
            TopSegment(l) \notin StdRoots \cup DeclaredModules(output.rust_code)
                => TopSegment(l) \in CrateSet

\* C4 witness: an output with a use line of a bundled module, outside
\* required_crates, next to a use line of an external crate.
C4_Witness ==
    /\ pc = "done"
    /\ \E l \in UseLines(output.rust_code) :
           TopSegment(l) \in DeclaredModules(output.rust_code) /\ TopSegment(l) \notin CrateSet
    /\ \E l \in UseLines(output.rust_code) :
           TopSegment(l) \notin StdRoots \cup DeclaredModules(output.rust_code)

SerdeDerives == <<"#", "[", "d", "e", "r", "i", "v", "e", "(", "D", "e", "b", "u", "g", ",", " ", "C", "l", "o", "n", "e", ",", " ", "s", "e", "r", "d", "e", "_", "d", "e", "r", "i", "v", "e", ":", ":", "S", "e", "r", "i", "a", "l", "i", "z", "e", ",", " ", "s", "e", "r", "d", "e", "_", "d", "e", "r", "i", "v", "e", ":", ":", "D", "e", "s", "e", "r", "i", "a", "l", "i", "z", "e", ")", "]">>

PlainDerives == <<"#", "[", "d", "e", "r", "i", "v", "e", "(", "D", "e", "b", "u", "g", ",", " ", "C", "l", "o", "n", "e", ")", "]">>

\* the unit contains an import from trusty:json
ImportsJson ==
    \E k \in 1..Len(module) : module[k].kind = "import" /\ module[k].src = <<"t", "r", "u", "s", "t", "y", ":", "j", "s", "o", "n">>

\* the attribute lines of the structs of the output: the line before each
\* `struct <Name> {` line
StructDerives(text) ==
    {lines(text)[k - 1] : k \in {n \in 2..Len(lines(text)) :
                                     starts_with(lines(text)[n], <<"s", "t", "r", "u", "c", "t", " ">>)}}

StructCount(text) ==
    Cardinality({n \in 1..Len(lines(text)) : starts_with(lines(text)[n], <<"s", "t", "r", "u", "c", "t", " ">>)})

DeclaredShim(name) ==
    IF name = <<"m", "a", "t", "h">> THEN [uses |-> math_use_statements, crates |-> math_required_crates]
    ELSE IF name = <<"r", "a", "n", "d">> THEN [uses |-> rand_use_statements, crates |-> rand_required_crates]
    ELSE IF name = <<"t", "i", "m", "e">> THEN [uses |-> time_use_statements, crates |-> time_required_crates]
    ELSE IF name = <<"j", "s", "o", "n">> THEN [uses |-> json_use_statements, crates |-> json_required_crates]
    ELSE [uses |-> http_use_statements, crates |-> http_required_crates]

StdlibNames == {<<"m", "a", "t", "h">>, <<"r", "a", "n", "d">>, <<"t", "i", "m", "e">>, <<"j", "s", "o", "n">>, <<"h", "t", "t", "p">>}

\* the first item of the unit is a named import from trusty:<name>, and the
\* item loop has just handled it
FirstImportHandled(name) ==
    /\ pc = "items" /\ idx = 2
    /\ module[1].kind = "import" /\ module[1].src = <<"t", "r", "u", "s", "t", "y", ":">> \o name
    /\ \A k \in 1..Len(module[1].specifiers) : module[1].specifiers[k].k = "named"

\* C8: a named import from trusty:<name>, for each of math, rand, time, json
\* and http, injects the module's shim as use_statements and adds exactly the
\* module's declared crates, never the `module not yet implemented` comment.
C8_StdlibResolved ==
    \A name \in StdlibNames :
        FirstImportHandled(name) =>
            /\ use_statements = DeclaredShim(name).uses
            /\ required_crates = crate_names(DeclaredShim(name).crates)
            /\ \A k \in 1..Len(use_statements) :
                   ~str_contains(use_statements[k], <<"m", "o", "d", "u", "l", "e", " ", "n", "o", "t", " ", "y", "e", "t", " ", "i", "m", "p", "l", "e", "m", "e", "n", "t", "e", "d">>)

\* C8 witness: a named import from trusty:http has been handled and left the
\* unknown-module comment and no crate.
C8_Witness ==
    /\ FirstImportHandled(<<"h", "t", "t", "p">>)
    /\ Len(use_statements) = 1
    /\ str_contains(use_statements[1], <<"m", "o", "d", "u", "l", "e", " ", "n", "o", "t", " ", "y", "e", "t", " ", "i", "m", "p", "l", "e", "m", "e", "n", "t", "e", "d">>)
    /\ required_crates = <<>>

\* the use statements that stand at the start of a line of the output
TopUseLines(text) ==
    {k \in 1..Len(lines(text)) :
        starts_with(lines(text)[k], <<"u", "s", "e", " ">>) /\ ends_with(lines(text)[k], <<";">>)}

\* the module aliases registered by the imports before item k
AliasesBefore(k) ==
    LET imps == {j \in 1..(k - 1) : module[j].kind = "import"}
        RECURSIVE acc(_, _)
        acc(n, v) == IF n > Cardinality(imps) THEN v
                     ELSE acc(n + 1, push_new(v, transpile_import(module[Kth(imps, n)]).module_aliases))
    IN acc(1, <<>>)

\* what the items of one kind (class, var or fn) lower to, in source order
SectionOf(kind) ==
    LET at == {k \in 1..Len(module) : module[k].kind = kind}
        low(k) ==
            IF kind = "class" THEN
                (IF transpile_impl_block(module[k], AliasesBefore(k)).some
                 THEN <<transpile_impl_block(module[k], AliasesBefore(k)).code>> ELSE <<>>)
            ELSE IF kind = "var" THEN transpile_global_const(module[k])
            ELSE <<transpile_function(module[k], AliasesBefore(k))>>
        RECURSIVE acc(_, _)
        acc(n, v) == IF n > Cardinality(at) THEN v ELSE acc(n + 1, v \o low(Kth(at, n)))
    IN acc(1, <<>>)

\* the type declarations of the unit, structs and enums in source order
TypeSection ==
    LET at == {k \in 1..Len(module) : module[k].kind \in {"interface", "enum"}}
    IN [n \in 1..Cardinality(at) |->
           IF module[Kth(at, n)].kind = "interface"
           THEN transpile_interface(module[Kth(at, n)], ImportsJson)
           ELSE transpile_enum(module[Kth(at, n)])]

\* the output is the use statements, the type declarations, the impl blocks,
\* the global consts and the functions, in this order
SectionsInOrder ==
    output.rust_code =
        trim(assemble(use_statements, TypeSection, SectionOf("class"),
                      SectionOf("var"), SectionOf("fn")))

\* no use statement stands on two lines of the output
NoUseTwice ==
    \A i, j \in TopUseLines(output.rust_code) :
        i # j => lines(output.rust_code)[i] # lines(output.rust_code)[j]

\* C10: the output lists the use statements, then the type declarations, then
\* the impl blocks, then the global consts, then the functions, each section
\* in source order, and no use statement appears twice.
C10_SectionOrder == (pc = "done") => (SectionsInOrder /\ NoUseTwice)

\* C10 witness: an output in which one use statement stands on two lines,
\* from a unit with two imports.
C10_Witness ==
    /\ pc = "done"
    /\ Len(module) = 2 /\ module[1].kind = "import" /\ module[2].kind = "import"
    /\ SectionsInOrder /\ ~NoUseTwice

(***************************************************************************)
(* Claims about the lowering of a function (checked under SpecFn).         *)
(***************************************************************************)

\* the statement of the function body and, when it reads or writes a field
\* `v.f` of an identifier, that access
TheStmt == func.body[1]

FieldRead ==
    TheStmt.s = "return" /\ TheStmt.arg.e = "member" /\ ~TheStmt.arg.computed
    /\ TheStmt.arg.obj.e = "ident"

FieldWrite ==
    TheStmt.s = "expr" /\ TheStmt.expr.e = "assign" /\ TheStmt.expr.target.t = "member"
    /\ TheStmt.expr.target.obj.e = "ident" /\ TheStmt.expr.right.e = "num"

\* the receiver, the field and the lowered statement of that access
Receiver == IF FieldRead THEN TheStmt.arg.obj.name ELSE TheStmt.expr.target.obj.name

Field == IF FieldRead THEN TheStmt.arg.prop ELSE TheStmt.expr.target.prop

Lowered == trim(body)

\* the receiver is bound in scope to Pointer<T> / Threaded<T>
BoundPointer == Receiver \in DOMAIN scope /\ starts_with(scope[Receiver], <<"R", "c", "<", "R", "e", "f", "C", "e", "l", "l", "<">>)

BoundThreaded == Receiver \in DOMAIN scope /\ starts_with(scope[Receiver], <<"A", "r", "c", "<", "M", "u", "t", "e", "x", "<">>)

BoundAlias == Receiver \in DOMAIN scope /\ scope[Receiver] = MODULE_ALIAS_MARKER

\* the lowering that the shared-cell dispatch prescribes for the access
DispatchRead ==
    <<"r", "e", "t", "u", "r", "n", " ">> \o Receiver
    \o (IF BoundPointer THEN <<".", "b", "o", "r", "r", "o", "w", "(", ")", ".">>
        ELSE IF BoundThreaded THEN <<".", "l", "o", "c", "k", "(", ")", ".", "u", "n", "w", "r", "a", "p", "(", ")", ".">> ELSE <<".">>)
    \o Field \o <<";">>

DispatchWrite ==
    Receiver
    \o (IF BoundPointer THEN <<".", "b", "o", "r", "r", "o", "w", "_", "m", "u", "t", "(", ")", ".">>
        ELSE IF BoundThreaded THEN <<".", "l", "o", "c", "k", "(", ")", ".", "u", "n", "w", "r", "a", "p", "(", ")", ".">> ELSE <<".">>)
    \o Field \o <<" ", "=", " ", "1", ";">>

BodyLowered == pc \in {"fn_format", "fn_done"}

\* C5 (as stated): every field read x.f lowers to x.borrow().f and every write
\* to x.borrow_mut().f = v when x is bound to a Pointer type, both go through
\* x.lock().unwrap() when x is bound to a Threaded type, and an identifier not
\* bound to a shared-cell type lowers to plain x.f.
C5_SharedCellDispatch ==
    BodyLowered =>
        /\ FieldRead => Lowered = DispatchRead
        /\ FieldWrite => Lowered = DispatchWrite

\* C5 (amended): the dispatch holds for every field other than `length`, on a
\* receiver that is not a module alias.
C5_SharedCellDispatchAmended ==
    (BodyLowered /\ (FieldRead \/ FieldWrite) /\ ~BoundAlias) =>
        /\ (FieldRead /\ Field # <<"l", "e", "n", "g", "t", "h">>) => Lowered = DispatchRead
        /\ FieldWrite => Lowered = DispatchWrite

\* C5 witness: a read of field f on a Pointer-bound x has been lowered through
\* borrow().
C5_Witness ==
    /\ BodyLowered /\ FieldRead /\ BoundPointer
    /\ Field = <<"f">>
    /\ Lowered = <<"r", "e", "t", "u", "r", "n", " ", "x", ".", "b", "o", "r", "r", "o", "w", "(", ")", ".", "f", ";">>

\* the lowering of the primitive type names, as the claim lists it
PrimitiveLowering(name) ==
    IF name \in {<<"n", "u", "m", "b", "e", "r", "8">>, <<"i", "n", "t", "8">>} THEN <<"i", "8">>
    ELSE IF name \in {<<"n", "u", "m", "b", "e", "r", "1", "6">>, <<"i", "n", "t", "1", "6">>} THEN <<"i", "1", "6">>
    ELSE IF name \in {<<"n", "u", "m", "b", "e", "r", "3", "2">>, <<"i", "n", "t", "3", "2">>, <<"i", "n", "t">>, <<"n", "u", "m", "b", "e", "r">>} THEN <<"i", "3", "2">>
    ELSE IF name \in {<<"n", "u", "m", "b", "e", "r", "6", "4">>, <<"i", "n", "t", "6", "4">>} THEN <<"i", "6", "4">>
    ELSE IF name = <<"f", "l", "o", "a", "t", "3", "2">> THEN <<"f", "3", "2">>
    ELSE <<"f", "6", "4">>

IsPrimitive(type) == type # NoType /\ type.k = "ref" /\ type.name \in PrimitiveNames

\* a generic or array type whose single argument is a primitive name
PrimitiveArg(type) ==
    IF type # NoType /\ type.k = "arr" /\ IsPrimitive(type.elem) THEN <<type.elem.name>>
    ELSE IF type # NoType /\ type.k = "ref" /\ type.args # <<>>
            /\ IsPrimitive(type.args[Len(type.args)])
    THEN <<type.args[Len(type.args)].name>>
    ELSE <<>>

TheParam == func.params[1]

SignatureLowered == pc \in {"fn_async", "fn_block", "fn_format", "fn_done"}

\* C7: transpile_type lowers each primitive name to its Rust type (number8 and
\* int8 to i8, ..., int and number to i32, float32 to f32, float64 and float to
\* f64) as a parameter type, as a return type and as a generic argument.
C7_PrimitiveLowering ==
    SignatureLowered =>
        /\ IsPrimitive(TheParam.type) =>
               /\ scope[TheParam.name] = PrimitiveLowering(TheParam.type.name)
               /\ params = TheParam.name \o <<":", " ">> \o PrimitiveLowering(TheParam.type.name)
        /\ IsPrimitive(func.ret) => return_type = PrimitiveLowering(func.ret.name)
        /\ PrimitiveArg(TheParam.type) # <<>> =>
               ends_with(trim_end_matches(scope[TheParam.name], ">"),
                         <<"<">> \o PrimitiveLowering(PrimitiveArg(TheParam.type)[1]))
        /\ PrimitiveArg(func.ret) # <<>> =>
               ends_with(trim_end_matches(return_type, ">"),
                         <<" ">> \o PrimitiveLowering(PrimitiveArg(func.ret)[1]))

\* C7 witness: the signature `f(x: int32): int32` has been lowered and the name
\* int32 stands in it unchanged.
C7_Witness ==
    /\ pc = "fn_done"
    /\ IsPrimitive(TheParam.type) /\ TheParam.type.name = <<"i", "n", "t", "3", "2">>
    /\ IsPrimitive(func.ret) /\ func.ret.name = <<"i", "n", "t", "3", "2">>
    /\ str_contains(func_code, <<"f", "n", " ", "f", "(", "x", ":", " ", "i", "n", "t", "3", "2", ")", " ", "-", ">", " ", "i", "n", "t", "3", "2", " ", "{">>)

(***************************************************************************)
(* Claims about repeated compilation (checked under SpecDet).              *)
(***************************************************************************)

\* compile_full is about to return
Returning == pc \in {"rejected", "failed", "done"}

\* C3: two invocations of compile_full on the same source return the same
\* rust_code and required_crates, or the same error, whatever was compiled
\* before or between them: the result of an invocation equals the result of
\* the first invocation on that source.
C3_Deterministic ==
    (Returning /\ source \in DOMAIN first_output) => output = first_output[source]

\* C3 witness: the third invocation returns code and crates for a source that
\* was compiled before, another source having been compiled as well.
C3_Witness ==
    /\ pc = "done" /\ calls = MaxCalls
    /\ source \in DOMAIN first_output
    /\ Cardinality(DOMAIN first_output) = 2
    /\ output.required_crates # <<>>
    /\ output = first_output[source]

(***************************************************************************)
(* Claims about the auto-injected use lines (checked under Spec).          *)
(***************************************************************************)

\* the use lines that the assembler can prepend: the line, the names it
\* imports and the type mentions that call for it
Injections ==
    { [line |-> <<"u", "s", "e", " ", "s", "t", "d", ":", ":", "r", "c", ":", ":", "R", "c", ";">>, names |-> {<<"R", "c">>}, mentions |-> {<<"R", "c", "<", "R", "e", "f", "C", "e", "l", "l", "<">>}],
      [line |-> <<"u", "s", "e", " ", "s", "t", "d", ":", ":", "c", "e", "l", "l", ":", ":", "R", "e", "f", "C", "e", "l", "l", ";">>, names |-> {<<"R", "e", "f", "C", "e", "l", "l">>},
       mentions |-> {<<"R", "c", "<", "R", "e", "f", "C", "e", "l", "l", "<">>}],
      [line |-> <<"u", "s", "e", " ", "s", "t", "d", ":", ":", "s", "y", "n", "c", ":", ":", "{", "A", "r", "c", ",", " ", "M", "u", "t", "e", "x", "}", ";">>, names |-> {<<"A", "r", "c">>, <<"M", "u", "t", "e", "x">>},
       mentions |-> {<<"A", "r", "c", "<", "M", "u", "t", "e", "x", "<">>}],
      [line |-> <<"u", "s", "e", " ", "s", "t", "d", ":", ":", "c", "o", "l", "l", "e", "c", "t", "i", "o", "n", "s", ":", ":", "H", "a", "s", "h", "M", "a", "p", ";">>, names |-> {<<"H", "a", "s", "h", "M", "a", "p">>},
       mentions |-> {<<"H", "a", "s", "h", "M", "a", "p", "<">>, <<"H", "a", "s", "h", "M", "a", "p", ":", ":", "n", "e", "w", "(", ")">>}],
      [line |-> <<"u", "s", "e", " ", "s", "t", "d", ":", ":", "c", "o", "l", "l", "e", "c", "t", "i", "o", "n", "s", ":", ":", "H", "a", "s", "h", "S", "e", "t", ";">>, names |-> {<<"H", "a", "s", "h", "S", "e", "t">>},
       mentions |-> {<<"H", "a", "s", "h", "S", "e", "t", "<">>, <<"H", "a", "s", "h", "S", "e", "t", ":", ":", "n", "e", "w", "(", ")">>}] }

\* the use line imports the name: the name stands in it as a whole identifier
ImportsName(use_line, name) ==
    \E k \in 0..(Len(use_line) - Len(name)) :
        /\ SubSeq(use_line, k + 1, k + Len(name)) = name
        /\ (k = 0 \/ ~is_ident_char(use_line[k]))
        /\ (k + Len(name) = Len(use_line) \/ ~is_ident_char(use_line[k + Len(name) + 1]))

\* the use lines of a vector of use statements
UseLinesOf(uses) == UNION {UseLines(uses[k]) : k \in 1..Len(uses)}

\* some use line of the vector imports the name
Covered(uses, name) == \E l \in UseLinesOf(uses) : ImportsName(l, name)

\* the number of top-level use lines of the output that import the name
ImportCount(text, name) ==
    Cardinality({k \in TopUseLines(text) : ImportsName(lines(text)[k], name)})

\* no name of an injectable line is imported by two use lines of the output
NoNameImportedTwice(text) ==
    \A inj \in Injections : \A n \in inj.names : ImportCount(text, n) <= 1

\* the assembler prepends the line exactly when the output mentions the type
\* and no use line before the injection covers a name of the line
InjectedIffNeeded(inj) ==
    (~vec_contains(use_statements, inj.line) /\ vec_contains(use_statements', inj.line))
        <=> ( /\ \E m \in inj.mentions : str_contains(output'.rust_code, m)
              /\ \A n \in inj.names : ~Covered(use_statements, n) )

\* C11: the assembler prepends the use line of HashMap, HashSet, Rc, RefCell
\* or Arc/Mutex if and only if the assembled output mentions the type and the
\* name is not yet covered by a use line; hence no such name is imported by
\* two use lines of the output.
C11_AutoInjection ==
    [][(pc = "items" /\ pc' = "done") =>
          /\ \A inj \in Injections : InjectedIffNeeded(inj)
          /\ NoNameImportedTwice(output.rust_code)']_vars

\* C11 witness: an output that mentions HashMap< and imports HashMap on two
\* use lines, the second one from `import { HashMap, HashSet }`.
C11_Witness ==
    /\ pc = "done"
    /\ str_contains(output.rust_code, <<"H", "a", "s", "h", "M", "a", "p", "<">>)
    /\ ImportCount(output.rust_code, <<"H", "a", "s", "h", "M", "a", "p">>) = 2
    /\ vec_contains(use_statements, <<"u", "s", "e", " ", "s", "t", "d", ":", ":", "c", "o", "l", "l", "e", "c", "t", "i", "o", "n", "s", ":", ":", "{", "H", "a", "s", "h", "M", "a", "p", ",", " ", "H", "a", "s", "h", "S", "e", "t", "}", ";">>)

(***************************************************************************)
(* Claims about required_crates (checked under Spec).                      *)
(***************************************************************************)

\* the crates that the import at item j requires, in the order it lists them
CratesOf(j) ==
    IF module[j].kind = "import" /\ transpile_import(module[j]).ok
    THEN transpile_import(module[j]).required_crates
    ELSE <<>>

\* the places <<j, k>> at which the items processed so far require crate c
RequiredAt(c) ==
    {p \in UNION {{<<j, k>> : k \in 1..Len(CratesOf(j))} : j \in 1..(idx - 1)} :
        CratesOf(p[1])[p[2]] = c}

\* place p comes before place q in the source
PlaceBefore(p, q) == p[1] < q[1] \/ (p[1] = q[1] /\ p[2] < q[2])

\* the place at which crate c is first required
FirstRequired(c) == CHOOSE p \in RequiredAt(c) : \A q \in RequiredAt(c) : p = q \/ PlaceBefore(p, q)

\* C12: after any sequence of import declarations, required_crates holds
\* every crate required by some import exactly once, in the order in which
\* each crate was first required.
C12_InsertionOrderedSet ==
    (pc \in {"items", "done"}) =>
        /\ \A j \in 1..(idx - 1) : \A k \in 1..Len(CratesOf(j)) :
               vec_contains(required_crates, CratesOf(j)[k])
        /\ \A a \in 1..Len(required_crates) : RequiredAt(required_crates[a]) # {}
        /\ \A a, b \in 1..Len(required_crates) :
               a < b => /\ required_crates[a] # required_crates[b]
                        /\ PlaceBefore(FirstRequired(required_crates[a]),
                                       FirstRequired(required_crates[b]))

\* C12 witness: two imports were processed, the second requires a crate that
\* the first required too and a crate that is new.
C12_Witness ==
    /\ pc = "done" /\ Len(module) = 2
    /\ \E k \in 1..Len(CratesOf(2)) : Cardinality(RequiredAt(CratesOf(2)[k])) = 2
    /\ \E k \in 1..Len(CratesOf(2)) : RequiredAt(CratesOf(2)[k]) = {<<2, k>>}
    /\ Len(required_crates) < Len(CratesOf(1)) + Len(CratesOf(2))

(***************************************************************************)
(* Claims about one import declaration (checked under SpecImport).         *)
(***************************************************************************)

TheImport == module[1]

\* the item loop has handled the import, or has returned its error
ImportProcessed == idx = 2 \/ pc = "failed"

\* the module name of a trusty:* import
TrustyName == Drop(TheImport.src, 7)

IsTrusty == starts_with(TheImport.src, <<"t", "r", "u", "s", "t", "y", ":">>)

\* the name is neither in the resolver's table nor a stdlib module
UnknownTrusty == IsTrusty /\ ~resolve(TrustyName).some /\ TrustyName \notin StdlibNames

HasDefaultAlias == \E k \in 1..Len(TheImport.specifiers) : TheImport.specifiers[k].k = "default"

HasOtherSpecifier == \E k \in 1..Len(TheImport.specifiers) : TheImport.specifiers[k].k # "default"

\* the import succeeded with one comment line that names the module, and
\* nothing else
AcknowledgedByComment ==
    /\ pc # "failed" /\ output.status # "err"
    /\ Len(use_statements) = 1
    /\ starts_with(use_statements[1], <<"/", "/", " ", "t", "r", "u", "s", "t", "y", ":">> \o TrustyName)
    /\ ~str_contains(use_statements[1], <<"\n">>)
    /\ UseLinesOf(use_statements) = {}
    /\ required_crates = <<>>
    /\ module_aliases = <<>>

\* C13 (as stated): an import from an unknown trusty:<name> module, with
\* named specifiers, a default alias or both, succeeds with exactly one
\* comment line and no use line, crate requirement or module alias.
C13_UnknownNeverFatal == (UnknownTrusty /\ ImportProcessed) => AcknowledgedByComment

\* C13 (amended): the same, for every list of specifiers that does not mix a
\* default alias with other specifiers.
C13_UnknownNeverFatalAmended ==
    (UnknownTrusty /\ ImportProcessed /\ ~(HasDefaultAlias /\ HasOtherSpecifier))
        => AcknowledgedByComment

\* C13 witness: a default-alias import from an unknown module was handled
\* and left its comment line.
C13_Witness ==
    /\ UnknownTrusty /\ idx = 2 /\ HasDefaultAlias /\ ~HasOtherSpecifier
    /\ TrustyName = <<"f", "s">>
    /\ AcknowledgedByComment

\* the import emitted the bundled module and its alias
BundledAs(alias) ==
    /\ pc # "failed" /\ output.status # "err"
    /\ Len(use_statements) = 1
    /\ starts_with(use_statements[1], <<"m", "o", "d", " ", "_", "_", "t", "r", "u", "s", "t", "y", "_", "m", "a", "t", "h", " ", "{", "\n">>)
    /\ ends_with(use_statements[1], <<"\n", "}", "\n", "u", "s", "e", " ", "_", "_", "t", "r", "u", "s", "t", "y", "_", "m", "a", "t", "h", " ", "a", "s", " ">> \o alias \o <<";">>)
    /\ module_aliases = <<alias>>

CompilationFailed == pc = "failed" /\ output.status = "err"

\* C14 (as stated): `import a from "trusty:X"` succeeds only for X = math,
\* where it emits the bundled module, `use __trusty_math as a;` and the alias
\* a; for every other X, known or unknown, a default alias makes compilation
\* fail.
C14_DefaultAliasGating ==
    (IsTrusty /\ HasDefaultAlias /\ ImportProcessed) =>
        /\ (TrustyName = <<"m", "a", "t", "h">> /\ ~HasOtherSpecifier) => BundledAs(TheImport.specifiers[1].local)
        /\ TrustyName # <<"m", "a", "t", "h">> => CompilationFailed

\* C14 (amended): the same, where the failure is that of every other X in the
\* resolver's table; a default alias mixed with other specifiers fails for
\* every X.
C14_DefaultAliasGatingAmended ==
    (IsTrusty /\ HasDefaultAlias /\ ImportProcessed) =>
        /\ (TrustyName = <<"m", "a", "t", "h">> /\ ~HasOtherSpecifier) => BundledAs(TheImport.specifiers[1].local)
        /\ (TrustyName # <<"m", "a", "t", "h">> /\ resolve(TrustyName).some) => CompilationFailed
        /\ HasOtherSpecifier => CompilationFailed
        /\ ~CompilationFailed => (TrustyName = <<"m", "a", "t", "h">> \/ ~resolve(TrustyName).some)

\* C14 witness: `import a from "trusty:time"` has failed.
C14_Witness ==
    /\ IsTrusty /\ TrustyName = <<"t", "i", "m", "e">> /\ HasDefaultAlias /\ ~HasOtherSpecifier
    /\ CompilationFailed

(***************************************************************************)
(* Claims about module aliases (checked under SpecAlias).                  *)
(***************************************************************************)

\* the item of the unit that uses the alias, and its use
AliasUser == IF module[1].kind = "import" THEN module[2] ELSE module[1]

AliasUse == IF AliasUser.kind = "fn" THEN AliasUser.body[1].arg ELSE AliasUser.methods[1].body[1].arg

\* the identifiers that default imports of the unit introduce
UnitAliases ==
    UNION {{module[k].specifiers[j].local :
               j \in {n \in 1..Len(module[k].specifiers) : module[k].specifiers[n].k = "default"}} :
           k \in {n \in 1..Len(module) : module[n].kind = "import"}}

\* the text of the function or of the impl block
UserCode == IF AliasUser.kind = "fn" THEN function_code[1] ELSE impl_blocks[1]

\* a.p and a.m(args) with the path separator; the arguments of the model are
\* identifiers, which lower to themselves
Namespaced(use) ==
    IF use.e = "member" THEN use.obj.name \o <<":", ":">> \o use.prop
    ELSE use.callee.obj.name \o <<":", ":">> \o use.callee.prop \o <<"(">>
         \o join([k \in 1..Len(use.args) |-> use.args[k].name], <<",", " ">>) \o <<")">>

\* the two-argument log of an alias, which the shim names log_base
NamespacedLog(use) ==
    use.callee.obj.name \o <<":", ":", "l", "o", "g", "_", "b", "a", "s", "e", "(">>
        \o join([k \in 1..Len(use.args) |-> use.args[k].name], <<",", " ">>) \o <<")">>

UsesLog2(use) == use.e = "call" /\ use.callee.prop = <<"l", "o", "g">> /\ Len(use.args) = 2

Receiver15(use) == IF use.e = "member" THEN use.obj.name ELSE use.callee.obj.name

ImportFirst == module[1].kind = "import"

\* C15: for every identifier a that a default import introduces anywhere in
\* the unit, every a.p and every a.m(args) in a function or method is lowered
\* with the path separator (a::p, a::m(args)), whatever the member name is
\* and whether the import stands before or after the function.
C15_AliasNamespacing ==
    (pc = "done" /\ Receiver15(AliasUse) \in UnitAliases) =>
        str_contains(UserCode,
                     <<"r", "e", "t", "u", "r", "n", " ">> \o (IF UsesLog2(AliasUse) THEN NamespacedLog(AliasUse)
                                     ELSE Namespaced(AliasUse)) \o <<";">>)

\* C15 witness: a function that stands after the import and calls a map
\* method name on the alias was lowered with the method syntax.
C15_Witness ==
    /\ pc = "done" /\ ImportFirst /\ AliasUser.kind = "fn"
    /\ AliasUse.e = "call" /\ AliasUse.callee.prop = <<"g", "e", "t">>
    /\ module_aliases = <<<<"m">>>>
    /\ str_contains(function_code[1], <<"r", "e", "t", "u", "r", "n", " ", "m", ".", "g", "e", "t", "(", "&", "x", ")", ";">>)

(***************************************************************************)
(* Claims about the scope of a function (checked under SpecScope).         *)
(***************************************************************************)

\* the scope has been built by base_scope
ScopeBuilt == pc \in {"sc_params", "sc_body", "sc_catch", "sc_done"}

\* the name is bound to the module-alias marker
KeepsMarker(name) == name \in DOMAIN scope /\ is_module_alias_binding(scope[name])

\* C16: within one function, a name registered in the scope as a module
\* alias keeps its marker after any sequence of parameter bindings, local
\* variable declarations, for-head bindings and catch bindings of the same
\* name.
C16_MarkerKept ==
    ScopeBuilt => \A k \in 1..Len(module_aliases) : KeepsMarker(module_aliases[k])

\* C16 witness: after `let m: number = 1` in a function without parameters
\* the alias m is bound to i32.
C16_Witness ==
    /\ pc = "sc_body" /\ idx = 2 /\ func.params = <<>>
    /\ func.body[1] = Var("let", <<"m">>, Kw("number"), Num1)
    /\ module_aliases = <<<<"m">>>>
    /\ scope[<<"m">>] = <<"i", "3", "2">>

(***************************************************************************)
(* Claims about the methods of an implements block (checked under          *)
(* SpecMethod).                                                            *)
(***************************************************************************)

TheMethod == module[1].methods[1]

\* the expression holds, at any depth, an assignment to a this.* member
RECURSIVE AssignsThis(_)
AssignsThis(expr) ==
    IF expr.e = "assign"
    THEN (expr.target.t = "member" /\ expr.target.obj.e = "this") \/ AssignsThis(expr.right)
    ELSE IF expr.e = "bin" THEN AssignsThis(expr.left) \/ AssignsThis(expr.right)
    ELSE IF expr.e = "paren" THEN AssignsThis(expr.expr)
    ELSE IF expr.e = "call"
    THEN AssignsThis(expr.callee) \/ \E k \in 1..Len(expr.args) : AssignsThis(expr.args[k])
    ELSE IF expr.e = "member" THEN AssignsThis(expr.obj)
    ELSE IF expr.e = "await" THEN AssignsThis(expr.arg)
    ELSE FALSE

\* the statement contains, at any depth, an assignment to a this.* member
RECURSIVE ContainsThisAssign(_)
ContainsThisAssign(stmt) ==
    LET any(stmts) == \E k \in 1..Len(stmts) : ContainsThisAssign(stmts[k])
    IN
    IF stmt.s = "expr" THEN AssignsThis(stmt.expr)
    ELSE IF stmt.s = "return" THEN stmt.has_arg /\ AssignsThis(stmt.arg)
    ELSE IF stmt.s = "var"
    THEN \E k \in 1..Len(stmt.decls) : stmt.decls[k].has_init /\ AssignsThis(stmt.decls[k].init)
    ELSE IF stmt.s = "block" THEN any(stmt.stmts)
    ELSE IF stmt.s = "if"
    THEN AssignsThis(stmt.test) \/ ContainsThisAssign(stmt.cons)
         \/ (stmt.has_alt /\ ContainsThisAssign(stmt.alt))
    ELSE IF stmt.s = "while" THEN AssignsThis(stmt.test) \/ ContainsThisAssign(stmt.body)
    ELSE IF stmt.s = "for"
    THEN (stmt.init.some /\ ContainsThisAssign(stmt.init.decl))
         \/ (stmt.test.some /\ AssignsThis(stmt.test.expr))
         \/ (stmt.update.some /\ AssignsThis(stmt.update.expr))
         \/ ContainsThisAssign(stmt.body)
    ELSE IF stmt.s = "forof" THEN AssignsThis(stmt.right) \/ ContainsThisAssign(stmt.body)
    ELSE IF stmt.s = "try"
    THEN any(stmt.block) \/ (stmt.has_handler /\ any(stmt.handler))
         \/ (stmt.has_finalizer /\ any(stmt.finalizer))
    ELSE FALSE

\* the receiver in the signature of the lowered method
LoweredWith(self_param) ==
    str_contains(impl_blocks[1], <<"f", "n", " ">> \o TheMethod.name \o <<"(">> \o self_param)

\* C17: a method of an implements block is lowered with &mut self if any
\* statement of its body contains an assignment to a this.* member, also
\* inside a loop, for, try or nested block, and with &self otherwise.
C17_ReceiverSelection ==
    (pc = "done") =>
        IF \E k \in 1..Len(TheMethod.body) : ContainsThisAssign(TheMethod.body[k])
        THEN LoweredWith(<<"&", "m", "u", "t", " ", "s", "e", "l", "f">>)
        ELSE LoweredWith(<<"&", "s", "e", "l", "f">>)

\* C17 witness: a method whose loop body assigns this.x was lowered with
\* &self.
C17_Witness ==
    /\ pc = "done"
    /\ TheMethod.body[1] = While(Id(<<"c">>), Block(<<ExprStmt(AssignMember(This, <<"x">>, Num1))>>))
    /\ LoweredWith(<<"&", "s", "e", "l", "f">>)
    /\ str_contains(impl_blocks[1], <<"s", "e", "l", "f", ".", "x", " ", "=", " ", "1", ";">>)

(***************************************************************************)
(* Claims about static and async methods (checked under SpecImpl).         *)
(***************************************************************************)

TheClass == module[1]

Unsupported(method) == method.is_static \/ method.is_async

HasUnsupported == \E k \in 1..Len(TheClass.methods) : Unsupported(TheClass.methods[k])

\* the generated code has a method of that name
Emitted(method) == str_contains(output.rust_code, <<"f", "n", " ">> \o method.name \o <<"(">>)

\* C18: compiling a unit whose implements block has a static or an async
\* method fails with an error; such a method is neither dropped from nor
\* emitted into generated code.
C18_StaticAsyncUnsupported ==
    (pc \in {"done", "failed"} /\ HasUnsupported) =>
        /\ pc = "failed"
        /\ output.status = "err"

\* C18 witness: a unit with a static method compiled, and the generated
\* code has another method of the block but not the static one.
C18_Witness ==
    /\ pc = "done" /\ output.status = "ok"
    /\ Len(TheClass.methods) = 2
    /\ TheClass.methods[1].is_static /\ ~Emitted(TheClass.methods[1])
    /\ ~Unsupported(TheClass.methods[2]) /\ Emitted(TheClass.methods[2])

(***************************************************************************)
(* Claims about wait and await (checked under SpecWait).                   *)
(***************************************************************************)

\* the source is the function whose statement is written kw e
WrittenAs(kw, e) ==
    source \in {<<"f", "u", "n", "c", "t", "i", "o", "n", " ", "m", "a", "i", "n", "(", ")", " ", "{", "\n">> \o ind \o kw \o unparse(e) \o semi \o <<"\n", "}">> :
                   ind \in WaitIndents, semi \in {<<>>, <<";">>, <<";", ";">>}}

\* the statement of the generated function is (e).join().unwrap();
JoinsParenthesised(e) ==
    str_contains(output.rust_code,
                 <<" ", " ", " ", " ", "(">> \o transpile_expression(e, EmptyScope) \o <<")", ".", "j", "o", "i", "n", "(", ")", ".", "u", "n", "w", "r", "a", "p", "(", ")", ";", "\n">>)

\* C19: for every expression e, `wait e;` and `await e` used as a statement
\* are both lowered to the text (e).join().unwrap();
C19_WaitAwaitDuality ==
    \A e \in WaitExprs :
        (pc = "done" /\ (WrittenAs(<<"w", "a", "i", "t", " ">>, e) \/ WrittenAs(<<"a", "w", "a", "i", "t", " ">>, e))) =>
            JoinsParenthesised(e)

\* C19 witness: `wait a + b;` compiled to a + b.join().unwrap();
C19_Witness ==
    /\ pc = "done" /\ output.status = "ok"
    /\ WrittenAs(<<"w", "a", "i", "t", " ">>, [e |-> "bin", op |-> <<"+">>, left |-> Id(<<"a">>), right |-> Id(<<"b">>)])
    /\ str_contains(output.rust_code, <<" ", " ", " ", " ", "a", " ", "+", " ", "b", ".", "j", "o", "i", "n", "(", ")", ".", "u", "n", "w", "r", "a", "p", "(", ")", ";", "\n">>)

(***************************************************************************)
(* Claims about export declarations (checked under SpecExport).            *)
(***************************************************************************)

ExportKeywords == {<<"f", "u", "n", "c", "t", "i", "o", "n">>, <<"c", "o", "n", "s", "t">>, <<"s", "t", "r", "u", "c", "t">>, <<"e", "n", "u", "m">>, <<"i", "m", "p", "l", "e", "m", "e", "n", "t", "s">>}

\* the word at the head of the text
RECURSIVE word(_)
word(text) ==
    IF text = <<>> \/ ~is_ident_char(Head(text)) THEN <<>>
    ELSE <<Head(text)>> \o word(Tail(text))

\* the text has the word `export` followed by something else than one of
\* the five keywords
HasUnsupportedExport(text) ==
    \E i \in 1..Len(text) :
        /\ starts_with(Drop(text, i - 1), <<"e", "x", "p", "o", "r", "t">>)
        /\ (i = 1 \/ ~is_ident_char(text[i - 1]))
        /\ Len(text) >= i + 6 /\ is_whitespace(text[i + 6])
        /\ word(trim_start(Drop(text, i + 5))) \notin ExportKeywords

\* C20: a source in which `export` is followed by anything other than
\* function, const, struct, enum or implements never yields generated code,
\* through the bundler of the command line or through compile_full alone.
C20_UnsupportedExportFatal ==
    HasUnsupportedExport(source) => pc # "done"

\* C20 witness: a source with `export let x = 1;` compiled, and the
\* generated code has nothing of the declaration.
C20_Witness ==
    /\ pc = "done" /\ output.status = "ok"
    /\ str_contains(source, <<"e", "x", "p", "o", "r", "t", " ", "l", "e", "t", " ", "x", " ", "=", " ", "1", ";">>)
    /\ ~str_contains(output.rust_code, <<"x">>)

(***************************************************************************)
(* Claims about the generated statement when it runs (checked under        *)
(* SpecRun).                                                               *)
(***************************************************************************)

Executed(line) == \E n \in 1..Len(gen_log) : gen_log[n] = line

\* the update of the for statement, as generated
UpdateLine == transpile_expression(func.update.expr, EmptyScope) \o <<";">>

\* the run goes back: from inside the loop to its test
BackToTest == pc = "run" /\ gen_at' < gen_at

\* C21: in the program generated for `for (init; test; update) body`, the
\* update is executed after every iteration of the body and before the next
\* evaluation of the test, also when the body executes `continue`.
C21_UpdateBeforeTest ==
    [][(func.s = "for" /\ func.update.some /\ BackToTest) => Executed(UpdateLine)]_vars

\* C21 witness: the generated loop is back at its test after a `continue;`
\* and the update was not executed.
C21_Witness ==
    /\ pc = "run" /\ func.s = "for" /\ func.update.some
    /\ func.body.stmts = <<Work(<<"w", "o", "r", "k">>), Continue>>
    /\ gen_at <= Len(gen_lines) /\ IsWhile(gen_lines[gen_at])
    /\ Executed(<<"w", "o", "r", "k", "(", ")", ";">>) /\ ~Executed(UpdateLine)

\* the finalizer of the try statement, as generated
FinalLine == <<"c", "l", "e", "a", "n", "u", "p", "(", ")", ";">>

\* C22: in the code generated for try/catch/finally, the finalizer body is
\* executed on every path that leaves the try statement, also when the
\* catch body executes return or throw.
C22_FinalizerAlwaysRuns ==
    (func.s = "try" /\ func.has_finalizer /\ pc \in {"ended", "returned"}) =>
        Executed(FinalLine)

\* C22 witness: the try block threw, the catch body returned, and the
\* function was left without the finalizer.
C22_Witness ==
    /\ pc = "returned" /\ func.s = "try" /\ func.has_finalizer
    /\ try_result = "err" /\ func.handler = <<ReturnNothing>>
    /\ ~Executed(FinalLine)

(***************************************************************************)
(* Claims about assignments (checked under SpecAssign).                    *)
(***************************************************************************)

TheAssign == func.expr

AssignedValue == transpile_expression(TheAssign.right, scope)

\* C23: a compound assignment `x op= v` on an identifier or member target
\* is lowered to text with the same operator, never to the plain `x = v`;
\* only a source `x = v` lowers to `x = v`.
C23_OperatorPreserved ==
    (pc = "lowered") =>
        ends_with(body, <<" ">> \o TheAssign.op \o <<" ">> \o AssignedValue \o <<";">>)

\* C23 witness: `x += v` was lowered to `x = v;`.
C23_Witness ==
    /\ pc = "lowered"
    /\ TheAssign.op = <<"+", "=">> /\ TheAssign.target.t = "ident" /\ TheAssign.right = Id(<<"v">>)
    /\ body = <<"x", " ", "=", " ", "v", ";">>

ComputedTarget == TheAssign.target.t = "member" /\ TheAssign.target.computed

\* C24: an assignment to a computed member `a[i] = v` assigns to the indexed
\* element `a[i as usize]`, and never to a field named `unknown`.
C24_ComputedAssign ==
    (pc = "lowered" /\ ComputedTarget) =>
        /\ str_contains(body, <<"[">> \o transpile_expression(TheAssign.target.index, scope)
                              \o <<" ", "a", "s", " ", "u", "s", "i", "z", "e", "]">>)
        /\ ~str_contains(body, <<".", "u", "n", "k", "n", "o", "w", "n">>)

\* C24 witness: `a[i] = v` on a Pointer binding was lowered to an assignment
\* to the field unknown of the cell.
C24_Witness ==
    /\ pc = "lowered" /\ ComputedTarget
    /\ TheAssign.op = <<"=">> /\ TheAssign.target.index = Id(<<"i">>) /\ TheAssign.right = Id(<<"v">>)
    /\ body = <<"a", ".", "b", "o", "r", "r", "o", "w", "_", "m", "u", "t", "(", ")", ".", "u", "n", "k", "n", "o", "w", "n", " ", "=", " ", "v", ";">>

(***************************************************************************)
(* Claims about local declarations (checked under SpecDecl).               *)
(***************************************************************************)

TheDecl == func.decls[1]

Annotated == TheDecl.type # NoType

\* the name is bound in the scope to the type
BoundTo(name, ty) == name \in DOMAIN scope /\ scope[name] = ty

\* C25: after lowering a local declarator that carries a type annotation,
\* with or without initialiser, the scope maps the declared name to the
\* lowered annotation type.
C25_AnnotationRecorded ==
    (pc = "lowered" /\ Annotated) =>
        BoundTo(TheDecl.name, transpile_type_annotation(TheDecl.type))

\* C25 witness: `let q: string;` was lowered and q is not in the scope.
C25_Witness ==
    /\ pc = "lowered" /\ TheDecl.type = Kw("string") /\ ~TheDecl.has_init
    /\ TheDecl.name \notin DOMAIN scope

\* the initialiser is a bare identifier bound to a shared cell
InitShared ==
    /\ TheDecl.has_init /\ TheDecl.init.e = "ident"
    /\ TheDecl.init.name \in DOMAIN scope
    /\ (is_pointer(scope[TheDecl.init.name]) \/ is_threaded(scope[TheDecl.init.name]))

CloneOf(name) ==
    IF is_threaded(scope[name]) THEN <<"A", "r", "c", ":", ":", "c", "l", "o", "n", "e", "(", "&">> \o name \o <<")">>
    ELSE <<"R", "c", ":", ":", "c", "l", "o", "n", "e", "(", "&">> \o name \o <<")">>

\* C26: a local declaration whose initialiser is a bare identifier p bound
\* to a Pointer or Threaded type is lowered to a clone of that cell and
\* binds the new name to p's type, with or without a Pointer/Threaded
\* annotation; the cell is never wrapped in a second cell.
C26_SharedCellCloned ==
    (pc = "lowered" /\ InitShared) =>
        /\ ends_with(body, <<" ", "=", " ">> \o CloneOf(TheDecl.init.name) \o <<";">>)
        /\ BoundTo(TheDecl.name, scope[TheDecl.init.name])
        /\ ~str_contains(body, <<":", ":", "n", "e", "w", "(">>)

\* C26 witness: `let q: Pointer<P> = p` with p a Pointer was lowered to a
\* cell around p.
C26_Witness ==
    /\ pc = "lowered" /\ InitShared
    /\ TheDecl.type = PointerP /\ func.var_kind = "let"
    /\ body = <<"l", "e", "t", " ", "q", ":", " ", "R", "c", "<", "R", "e", "f", "C", "e", "l", "l", "<", "P", ">", ">", " ", "=", " ", "R", "c", ":", ":", "n", "e", "w", "(", "R", "e", "f", "C", "e", "l", "l", ":", ":", "n", "e", "w", "(", "p", ")", ")", ";">>

(***************************************************************************)
(* Claims about global constants (checked under SpecConst).                *)
(***************************************************************************)

TheConst == module[1].decls[1]

ConstLowered == pc = "done" /\ module[1].var_kind = "const" /\ TheConst.has_init

\* a numeric literal, under any number of minus signs
RECURSIVE IsNumeric(_)
IsNumeric(init) ==
    init.e = "num" \/ (init.e = "unary" /\ init.op = <<"-">> /\ IsNumeric(init.arg))

\* C27: a top-level const whose value is a string literal lowers to
\* `const NAME: &'static str = "...";`, annotated with string or not; an
\* untyped const gets the type i32 only when its value is numeric; a unary
\* minus on a literal is preserved.
C27_GlobalConst ==
    ConstLowered =>
        /\ (TheConst.init.e = "str" /\ TheConst.type \in {NoType, Kw("string")}) =>
               output.rust_code = <<"c", "o", "n", "s", "t", " ", "N", ":", " ", "&", "'", "s", "t", "a", "t", "i", "c", " ", "s", "t", "r", " ", "=", " ", "\"">> \o TheConst.init.value \o <<"\"", ";">>
        /\ (TheConst.type = NoType /\ str_contains(output.rust_code, <<"c", "o", "n", "s", "t", " ", "N", ":", " ", "i", "3", "2", " ", "=", " ">>)) =>
               IsNumeric(TheConst.init)
        /\ (TheConst.init.e = "unary" /\ TheConst.init.op = <<"-">> /\ TheConst.init.arg.e = "num") =>
               ends_with(output.rust_code, <<" ", "=", " ", "-">> \o TheConst.init.arg.text \o <<";">>)

\* C27 witness: the untyped `const N = "TRUST";` was lowered with the type
\* i32.
C27_Witness ==
    /\ ConstLowered /\ TheConst.type = NoType /\ TheConst.init = Str(<<"T", "R", "U", "S", "T">>)
    /\ output.rust_code = <<"c", "o", "n", "s", "t", " ", "N", ":", " ", "i", "3", "2", " ", "=", " ", "\"", "T", "R", "U", "S", "T", "\"", ";">>

(***************************************************************************)
(* C28: the text emitted for a match.                                      *)
(***************************************************************************)

\* the temporary of the match with index n
Temp(n) == <<"_", "_", "t", "r", "u", "s", "t", "_", "m", "a", "t", "c", "h", "_">> \o usize_to_chars(n)

IsDefault(arm) == arm.pattern = <<"d", "e", "f", "a", "u", "l", "t">>

IsList(arm) == Head(arm.pattern) = "[" /\ arm.pattern[Len(arm.pattern)] = "]"

\* the test of a non-default arm against the temporary tmp
Test(arm, tmp) ==
    IF IsList(arm) THEN arm.pattern \o <<".", "c", "o", "n", "t", "a", "i", "n", "s", "(", "&">> \o tmp \o <<")">>
    ELSE tmp \o <<" ", "=", "=", " ", "(">> \o arm.pattern \o <<")">>

\* the if / else-if chain over the arms `tested`, in their order
RECURSIVE Chain(_, _, _)
Chain(tested, k, tmp) ==
    IF k > Len(tested) THEN <<>>
    ELSE (IF k = 1 THEN <<"i", "f", " ">> ELSE <<"e", "l", "s", "e", " ", "i", "f", " ">>)
         \o Test(tested[k], tmp) \o <<" ", "{", " ">> \o tested[k].result \o <<" ", "}", " ">>
         \o Chain(tested, k + 1, tmp)

\* the result of the final else branch of a match with these arms
ElseResult(arms) ==
    IF \E i \in 1..Len(arms) : IsDefault(arms[i])
    THEN arms[CHOOSE i \in 1..Len(arms) : IsDefault(arms[i])].result
    ELSE <<"p", "a", "n", "i", "c", "!", "(", "\"", "n", "o", "n", "-", "e", "x", "h", "a", "u", "s", "t", "i", "v", "e", " ", "m", "a", "t", "c", "h", "\"", ")">>

\* the expression the claim describes for the n-th match (n from 0) of a source
Rewritten(arms, n) ==
    LET tested == SelectSeq(arms, LAMBDA arm : ~IsDefault(arm))
    IN <<"(", "{", " ", "l", "e", "t", " ">> \o Temp(n) \o <<" ", "=", " ", "x", ";", " ">>
       \o (IF tested = <<>> THEN ElseResult(arms) \o <<" ", "}">>
           ELSE Chain(tested, 1, Temp(n)) \o <<"e", "l", "s", "e", " ", "{", " ">> \o ElseResult(arms) \o <<" ", "}", " ", "}">>)
       \o <<")">>

RECURSIVE RewrittenProgram(_, _)
RewrittenProgram(prog, n) ==
    IF n > Len(prog) THEN <<>>
    ELSE (IF n = 1 THEN <<>> ELSE <<";", "\n">>) \o Rewritten(prog[n], n - 1)
         \o RewrittenProgram(prog, n + 1)

\* C28: every match of the source is replaced by one temporary bound to the
\* subject and an if / else-if chain over the non-default arms in source
\* order, a list pattern tested with `.contains(&tmp)` and any other pattern
\* with `tmp == (P)`; the final else holds the default arm's result wherever
\* the default arm stands, or panic!("non-exhaustive match") without one (a
\* match of the default arm alone is its result after the binding); the n-th
\* match of the source uses the temporary of index n - 1.
C28_MatchRewrite ==
    pc = "preprocessed" =>
        \A prog \in MatchPrograms :
            source = program_text(prog, 1) =>
                preprocessed = SomeStr(RewrittenProgram(prog, 1))

\* C28, the case: a source of two matches has been preprocessed, the first
\* with the default arm before a value arm, the second with a list arm and
\* no default.
C28_Witness ==
    /\ pc = "preprocessed"
    /\ source = <<"m", "a", "t", "c", "h", " ", "(", "x", ")", " ", "{", " ", "d", "e", "f", "a", "u", "l", "t", " ", "=", ">", " ", "c", ",", " ", "1", " ", "=", ">", " ", "a", " ", "}", ";", "\n", "m", "a", "t", "c", "h", " ", "(", "x", ")", " ", "{", " ", "[", "2", ",", " ", "3", "]", " ", "=", ">", " ", "b", " ", "}">>
    /\ preprocessed.val =
           <<"(", "{", " ", "l", "e", "t", " ", "_", "_", "t", "r", "u", "s", "t", "_", "m", "a", "t", "c", "h", "_", "0", " ", "=", " ", "x", ";", " ", "i", "f", " ", "_", "_", "t", "r", "u", "s", "t", "_", "m", "a", "t", "c", "h", "_", "0", " ", "=", "=", " ", "(", "1", ")", " ", "{", " ", "a", " ", "}", " ", "e", "l", "s", "e", " ", "{", " ", "c", " ", "}", " ", "}", ")", ";", "\n">>
           \o <<"(", "{", " ", "l", "e", "t", " ", "_", "_", "t", "r", "u", "s", "t", "_", "m", "a", "t", "c", "h", "_", "1", " ", "=", " ", "x", ";", " ", "i", "f", " ", "[", "2", ",", " ", "3", "]", ".", "c", "o", "n", "t", "a", "i", "n", "s", "(", "&", "_", "_", "t", "r", "u", "s", "t", "_", "m", "a", "t", "c", "h", "_", "1", ")", " ", "{", " ", "b", " ", "}", " ">>
           \o <<"e", "l", "s", "e", " ", "{", " ", "p", "a", "n", "i", "c", "!", "(", "\"", "n", "o", "n", "-", "e", "x", "h", "a", "u", "s", "t", "i", "v", "e", " ", "m", "a", "t", "c", "h", "\"", ")", " ", "}", " ", "}", ")">>

(***************************************************************************)
(* C29: the bundler of local modules.                                      *)
(***************************************************************************)

\* the lines of a file that are local imports, in line order
ImportLines(path) ==
    SelectSeq(LinesOf[files[path]], LAMBDA line : LocalImport[line].some)

\* the files a file imports
ImportsOf(path) ==
    {canonicalize(ImportTarget[ImportLines(path)[k]].val) :
        k \in {j \in 1..Len(ImportLines(path)) : ImportTarget[ImportLines(path)[j]].some}}

\* the files reached from the files of S by at most n imports
RECURSIVE ReachedIn(_, _)
ReachedIn(S, n) ==
    IF n = 0 THEN S
    ELSE ReachedIn(S \cup UNION {ImportsOf(path) : path \in S}, n - 1)

\* the import graph reachable from the entry file
Reachable == ReachedIn({EntryPath}, Cardinality(ModulePaths))

\* a reachable file imports itself, directly or through other files
HasCycle ==
    \E path \in Reachable : path \in ReachedIn(ImportsOf(path), Cardinality(ModulePaths))

\* every local import of a reachable file names a file that exists, and every
\* export of a reachable file is one the bundler supports
WellFormed ==
    \A path \in Reachable :
        /\ \A k \in 1..Len(ImportLines(path)) : ImportTarget[ImportLines(path)[k]].some
        /\ RewrittenBody[files[path]].ok

\* the modules of a bundle, in the order of their header lines
SectionsOf(text) ==
    LET ls == lines(text)
        heads == SelectSeq(ls, LAMBDA line : starts_with(line, <<"/", "/", " ", "-", "-", "-", " ", "m", "o", "d", "u", "l", "e", ":", " ">>))
    IN [k \in 1..Len(heads) |->
           SubSeq(heads[k], Len(<<"/", "/", " ", "-", "-", "-", " ", "m", "o", "d", "u", "l", "e", ":", " ">>) + 1, Len(heads[k]) - Len(<<" ", "-", "-", "-">>))]

\* each reachable module has one section in the bundle, no other module has
\* one, and the section of a module comes after those of the modules it imports
BundleInOrder ==
    LET sections == SectionsOf(bundle.text)
        At(path) == {k \in 1..Len(sections) : sections[k] = path}
    IN /\ bundle.status = "ok"
       /\ \A k \in 1..Len(sections) : sections[k] \in Reachable
       /\ \A path \in Reachable : Cardinality(At(path)) = 1
       /\ \A path \in Reachable : \A dep \in ImportsOf(path) :
              \A i \in At(dep), j \in At(path) : i < j

BundleFinished == cli_pc \in {"bundled", "failed"}

CircularError == bundle.status = "err" /\ bundle.err = "Circular local import detected"

CompileFailed ==
    /\ tool = "failure"
    /\ \E n \in 1..Len(stderr) : stderr[n] = "Compilation failed:"

\* C30: the command spawns only the binary compiled in this invocation, never
\* the binary an earlier invocation left in build/; and when the compiler has
\* reported failure the command ends with an error and nothing spawned.
C30_RunsOnlyFreshBinary ==
    /\ spawned \in {"none", "fresh"}
    /\ (CompileFailed /\ cli_pc = "done") => (cli_result = "err" /\ spawned = "none")

\* C30, the case: the compiler reported failure, build/ held the binary of an
\* earlier invocation, and the command has ended having spawned it.
C30_Witness ==
    /\ CompileFailed
    /\ cli_pc = "done"
    /\ spawned = "stale"
    /\ cli_result = "ok"

====
